---- MODULE Spec2Model ----
(***************************************************************************)
(* Artifact handling of the gretel client                                  *)
(* (src/src/gretel_client/projects/artifact_handlers.py) and the hybrid    *)
(* session (src/src/gretel_client/_hybrid/config.py).                      *)
(*                                                                         *)
(* Spec        one call of CloudArtifactsHandler.get_project_artifact_     *)
(*             manifest: the function body under its two stacked tenacity  *)
(*             @retry decorators, against a remote service that answers    *)
(*             each fetch in any way it likes.                             *)
(* SpecUpload  one call of CloudArtifactsHandler.upload_project_artifact,  *)
(*             step by step, against a file system, a remote service and   *)
(*             a signed URL that may each fail.                            *)
(* SpecHybrid  hybrid_handler and HybridArtifactsHandler.upload_project_   *)
(*             artifact, step by step, against a store of local files and  *)
(*             remote objects.                                             *)
(* SpecOps     the one-step operations of the Hybrid and None handlers.    *)
(* SpecDownload  download on a Cloud or Hybrid handler, step by step.      *)
(* SpecFair    Spec, where a call that can take a step takes one.          *)
(* SpecHybridRace  SpecHybrid, with another actor deleting the source of   *)
(*             an upload that is under way.                                *)
(* SpecConcurrent  two Hybrid uploads of the same source, interleaved.     *)
(* SpecSession  configure_hybrid_session, step by step.                    *)
(***************************************************************************)
EXTENDS Integers, Sequences, FiniteSets, TLC

VARIABLES
    \* ---- get_project_artifact_manifest ----
    pc,                  \* position of the call: idle, fetch, sleepNotFound, sleepPending, done
    retry_on_not_found,  \* argument of the call
    retry_on_pending,    \* argument of the call
    notFoundAttempt,     \* attempt_number of the inner Retrying (stop_after_attempt(5))
    pendingAttempt,      \* attempt_number of the outer Retrying (stop_after_attempt(15))
    fetches,             \* calls of projects_api.get_artifact_manifest made by the call
    waited,              \* time-units slept by the call
    outcome,             \* how the call ended: a returned value or a raised exception
    lastAnswer,          \* what the remote service answered to the latest fetch
    nfAnswers,           \* fetches answered NotFound (a 404, or an empty response)
    nfRun,               \* length of the current run of consecutive NotFound answers
    pendingAnswers,      \* fetches answered by a manifest with status pending
    nfAfterPending,      \* a NotFound answer came after a pending one
    \* ---- upload_project_artifact (Cloud) ----
    upc,                 \* position of the upload call
    source,              \* the artifact_path argument
    artPath,             \* artifact_path after _get_artifact_path_and_file_name
    fileName,            \* file_name after _get_artifact_path_and_file_name
    tempFiles,           \* temporary files that exist on disk
    tempCreated,         \* temporary files created so far
    uploads,             \* upload_project_artifact calls started
    openStreams,         \* streams currently open
    streamsOpened,       \* smart_open.open calls that succeeded
    slots,               \* artifact keys registered on the remote service
    createCalls,         \* create_artifact requests sent
    putCalls,            \* HTTP PUT requests sent
    slotKey,             \* artifact_key of the slot this call was given
    putAnswer,           \* how the HTTP PUT of this call was answered
    uploadOutcome,       \* how the upload call ended
    \* ---- handlers, the store, upload_project_artifact (Hybrid) ----
    handler,             \* the handler the factory returned: its class and bound fields
    store,               \* local files and remote objects: path -> content
    uuids,               \* uuid4 values drawn
    targetOut,           \* target_out of the Hybrid upload in progress
    returnedKeys,        \* keys that uploads of this handler returned after storing them
    storedAtCall,        \* the paths of the store when the current upload call began
    \* ---- one-step operations ----
    op,                  \* the latest operation: its name, argument and result
    \* ---- download ----
    dpc,                 \* position of the download call
    downloads,           \* download calls started
    download_link,       \* argument of the call
    output_path,         \* argument of the call
    artifact_type,       \* argument of the call
    target_out,          \* target_out of _download
    logged,              \* the artifact types that log.error messages of this call named
    existedAtCall,       \* the paths of the store when the download call began
    downloadOutcome,     \* how the download call ended
    \* ---- concurrent uploads (Hybrid) ----
    calls,               \* per caller: the position and the locals of its upload call
    \* ---- configure_hybrid_session ----
    cpc,                 \* position of the configure_hybrid_session call
    configures,          \* configure_hybrid_session calls started
    default_runner,      \* keyword argument of the call
    artifact_endpoint,   \* keyword argument of the call
    session,             \* the main session
    sessionAtCall,       \* the main session when the call began
    sessionLog,          \* configure_session and set_session_config calls of this call
    configureOutcome     \* how the call ended

manifestVars == <<pc, retry_on_not_found, retry_on_pending, notFoundAttempt, pendingAttempt,
                  fetches, waited, outcome, lastAnswer, nfAnswers, nfRun, pendingAnswers,
                  nfAfterPending>>

uploadVars == <<upc, source, artPath, fileName, tempFiles, tempCreated, uploads, openStreams,
                streamsOpened, slots, createCalls, putCalls, slotKey, putAnswer, uploadOutcome>>

hybridVars == <<handler, store, uuids, targetOut, returnedKeys, storedAtCall>>

opVars == <<op>>

\* what the Cloud upload alone uses
cloudOnlyVars == <<slots, createCalls, putCalls, slotKey, putAnswer>>

downloadVars == <<dpc, downloads, download_link, output_path, artifact_type, target_out, logged,
                  existedAtCall, downloadOutcome>>

concurrentVars == <<calls>>

sessionVars == <<cpc, configures, default_runner, artifact_endpoint, session, sessionAtCall,
                 sessionLog, configureOutcome>>

handlerVars == <<hybridVars, opVars, downloadVars, concurrentVars, sessionVars>>

vars == <<manifestVars, uploadVars, handlerVars>>

----------------------------------------------------------------------------
(* Bounds of the model *)

\* distinct manifest payloads the remote service may answer with
MaxPayload == 2

\* distinct remote-service errors other than NotFound
MaxErrorCode == 2

----------------------------------------------------------------------------
(* Values *)

\* Python's None, in the shape of a manifest so that results compare
None == [status |-> "None", id |-> 0]

Payloads == 1..MaxPayload

PendingManifests == [status : {"pending"}, id : Payloads]

FinalManifests == [status : {"completed"}, id : Payloads]

\* projects_api.get_artifact_manifest raises NotFoundException (HTTP 404)
Answer404 == [kind |-> "NotFoundException", resp |-> None, code |-> 0]

\* projects_api.get_artifact_manifest returns resp
AnswerResp(resp) == [kind |-> "resp", resp |-> resp, code |-> 0]

\* projects_api.get_artifact_manifest raises another remote-service error
AnswerError(code) == [kind |-> "ApiException", resp |-> None, code |-> code]

NoAnswer == [kind |-> "none", resp |-> None, code |-> 0]

Return(value) == [kind |-> "return", exc |-> "", manifest |-> value, code |-> 0]

Raise(exc, manifest, code) == [kind |-> "raise", exc |-> exc, manifest |-> manifest, code |-> code]

Running == [kind |-> "running", exc |-> "", manifest |-> None, code |-> 0]

----------------------------------------------------------------------------
(* get_project_artifact_manifest: the decorators' parameters *)

\* outer @retry: wait=wait_fixed(2)
PendingWait == 2

\* outer @retry: stop=stop_after_attempt(15)
PendingMaxAttempts == 15

\* inner @retry: wait=wait_fixed(3)
NotFoundWait == 3

\* inner @retry: stop=stop_after_attempt(5)
NotFoundMaxAttempts == 5

\* variant: a stop that lets one attempt too many through
StopAfterAttemptLate(attempt, max) == attempt > max

\* variant: a stop that gives up one attempt too early
StopAfterAttemptEarly(attempt, max) == attempt + 1 >= max

\* tenacity's stop_after_attempt(max): stop once attempt_number >= max
StopAfterAttempt(attempt, max) == attempt >= max

\* variant: retry_if_exception_type(Exception)
RetryIfAnyException(out) == out.kind = "raise"

\* inner @retry: retry=retry_if_exception_type(ManifestNotFoundException)
RetryIfNotFound(out) == out.kind = "raise" /\ out.exc = "ManifestNotFoundException"

\* outer @retry: retry=retry_if_exception_type(ManifestPendingException)
RetryIfPending(out) == out.kind = "raise" /\ out.exc = "ManifestPendingException"

\* variant: no retry_error_callback, the last exception leaves the loop
NotFoundCallbackReraise(out) == out

\* inner @retry: retry_error_callback=lambda retry_state: None
NotFoundRetryErrorCallback(out) == Return(None)

\* variant: the callback of the not-found loop, copied
PendingCallbackNone(out) == Return(None)

\* variant: no retry_error_callback, the last exception leaves the loop
PendingCallbackReraise(out) == out

\* outer @retry: retry_error_callback=lambda retry_state: retry_state.outcome.exception().manifest
PendingRetryErrorCallback(out) == Return(out.manifest)

----------------------------------------------------------------------------
(* get_project_artifact_manifest: the function body *)

\* variant: a body that raises ManifestPendingException whatever retry_on_pending is
BodyIgnoresPendingFlag(ans, rnf, rp) ==
    IF ans.kind = "NotFoundException"
    THEN Raise("ManifestNotFoundException", None, 0)
    ELSE IF ans.kind = "ApiException"
    THEN Raise("ApiException", None, ans.code)
    ELSE IF rnf /\ ans.resp = None
    THEN Raise("ManifestNotFoundException", None, 0)
    ELSE IF ans.resp # None /\ ans.resp.status = "pending"
    THEN Raise("ManifestPendingException", ans.resp, 0)
    ELSE Return(ans.resp)

\* one run of the decorated function's body on the answer of its fetch
Body(ans, rnf, rp) ==
    IF ans.kind = "NotFoundException"
    THEN Raise("ManifestNotFoundException", None, 0)
    ELSE IF ans.kind = "ApiException"
    THEN Raise("ApiException", None, ans.code)
    ELSE IF rnf /\ ans.resp = None
    THEN Raise("ManifestNotFoundException", None, 0)
    ELSE IF rp /\ ans.resp # None /\ ans.resp.status = "pending"
    THEN Raise("ManifestPendingException", ans.resp, 0)
    ELSE Return(ans.resp)

\* variant: an inner Retrying that allows a sixth attempt
NotFoundRetryingStopsLate(out, attempt) ==
    IF RetryIfNotFound(out)
    THEN IF attempt > NotFoundMaxAttempts
         THEN [next |-> "finish", out |-> NotFoundRetryErrorCallback(out)]
         ELSE [next |-> "sleep", out |-> out]
    ELSE [next |-> "finish", out |-> out]

\* the inner Retrying after an attempt ended with `out`: retry after a sleep,
\* or finish with a value / an exception it does not handle
NotFoundRetrying(out, attempt) ==
    IF RetryIfNotFound(out)
    THEN IF StopAfterAttempt(attempt, NotFoundMaxAttempts)
         THEN [next |-> "finish", out |-> NotFoundRetryErrorCallback(out)]
         ELSE [next |-> "sleep", out |-> out]
    ELSE [next |-> "finish", out |-> out]

\* the outer Retrying after the inner one finished with `out`
PendingRetrying(out, attempt) ==
    IF RetryIfPending(out)
    THEN IF StopAfterAttempt(attempt, PendingMaxAttempts)
         THEN [next |-> "finish", out |-> PendingRetryErrorCallback(out)]
         ELSE [next |-> "sleep", out |-> out]
    ELSE [next |-> "finish", out |-> out]

\* the remote service has no manifest for the key: a 404, or an empty response
IsNotFound(ans) ==
    \/ ans.kind = "NotFoundException"
    \/ ans.kind = "resp" /\ ans.resp = None

IsPending(ans) == ans.kind = "resp" /\ ans.resp # None /\ ans.resp.status = "pending"

IsFinal(ans) == ans.kind = "resp" /\ ans.resp # None /\ ans.resp.status # "pending"

----------------------------------------------------------------------------
(* Strings are sequences of characters *)

StartsWith(s, prefix) ==
    Len(s) >= Len(prefix) /\ SubSeq(s, 1, Len(prefix)) = prefix

\* index of the first character of s that is in chars, or Len(s) + 1
FirstOf(s, chars) ==
    IF \E i \in 1..Len(s) : s[i] \in chars
    THEN CHOOSE i \in 1..Len(s) : s[i] \in chars /\ \A j \in 1..(i - 1) : s[j] \notin chars
    ELSE Len(s) + 1

\* urlparse(s).path: s without "<scheme>://<netloc>" and without query and fragment
UrlPath(s) ==
    LET colon == FirstOf(s, {":"})
        hasNetloc == /\ colon > 1
                     /\ colon + 2 <= Len(s)
                     /\ s[colon + 1] = "/"
                     /\ s[colon + 2] = "/"
                     /\ \A j \in 1..(colon - 1) : s[j] \notin {"/", "?", "#"}
        afterScheme == IF hasNetloc THEN SubSeq(s, colon + 3, Len(s)) ELSE s
        rest == IF hasNetloc
                THEN SubSeq(afterScheme, FirstOf(afterScheme, {"/", "?", "#"}), Len(afterScheme))
                ELSE s
    IN  SubSeq(rest, 1, FirstOf(rest, {"?", "#"}) - 1)

\* Path(p).name: the final component of p, trailing separators ignored
PathName(p) ==
    LET ends == {i \in 1..Len(p) : p[i] # "/"}
        last == IF ends = {} THEN 0 ELSE CHOOSE i \in ends : \A j \in ends : j <= i
        seps == {i \in 1..last : p[i] = "/"}
        from == IF seps = {} THEN 1 ELSE 1 + (CHOOSE i \in seps : \A j \in seps : j <= i)
    IN  SubSeq(p, from, last)

\* file_name = Path(urlparse(artifact_path).path).name
FileNameOf(s) == PathName(UrlPath(s))

----------------------------------------------------------------------------
(* Cloud upload: values *)

\* sources the caller has uploaded or uploads in one behaviour
MaxUploads == 2

\* get_project_artifact_handle blocks entered in one behaviour
MaxHandles == 2

GretelPrefix == <<"g", "r", "e", "t", "e", "l", "_">>

Str(text) == [kind |-> "str", text |-> text]

PathObj(text) == [kind |-> "Path", text |-> text]

\* a tabular in-memory dataset
DataFrame == [kind |-> "DataFrame", text |-> <<>>]

NoSource == [kind |-> "none", text |-> <<>>]

\* the artifact_path arguments tried, besides the keys earlier uploads returned
Sources ==
    { Str(GretelPrefix \o <<"a">>),                       \* "gretel_a"
      Str(GretelPrefix),                                  \* "gretel_"
      Str(<<"g", "r", "e", "t", "e", "l">>),              \* "gretel"
      Str(<<"G", "r", "e", "t", "e", "l", "_", "a">>),    \* "Gretel_a"
      Str(<<"d", "/">> \o GretelPrefix \o <<"a">>),       \* "d/gretel_a"
      Str(<<"d", "/", "a", ".", "c">>),                   \* "d/a.c"
      Str(<<"s", "3", ":", "/", "/", "b", "/", "a", "?", "v">>),  \* "s3://b/a?v"
      PathObj(GretelPrefix \o <<"a">>),                   \* Path("gretel_a")
      PathObj(<<"d", "/", "a", ".", "c">>),               \* Path("d/a.c")
      DataFrame }

\* tempfile.NamedTemporaryFile: the name of the n-th temporary file
TempName(n) == <<"/", "t", "m", "p", "/">> \o <<IF n = 1 THEN "1" ELSE IF n = 2 THEN "2" ELSE "3">>

\* f"dataframe-{uuid.uuid4()}.csv"
DataFrameFileName == <<"d", "a", "t", "a", "f", "r", "a", "m", "e", "-", "u", ".", "c", "s", "v">>

\* the key the remote service gives the n-th slot it creates for file_name
ServiceKey(n, name) ==
    GretelPrefix \o <<IF n = 1 THEN "1" ELSE IF n = 2 THEN "2" ELSE "3">> \o <<"_">> \o name

NoKey == <<>>

UploadReturn(value) == [kind |-> "return", exc |-> "", value |-> value]

UploadRaise(exc) == [kind |-> "raise", exc |-> exc, value |-> NoSource]

UploadRunning == [kind |-> "running", exc |-> "", value |-> NoSource]

\* variant: the isinstance test on Path instead of str
DoesNotRequireUploadPathOnly(artifact_path) ==
    artifact_path.kind = "Path" /\ StartsWith(artifact_path.text, GretelPrefix)

\* CloudArtifactsHandler._does_not_require_upload
CloudDoesNotRequireUpload(artifact_path) ==
    artifact_path.kind = "str" /\ StartsWith(artifact_path.text, GretelPrefix)

\* the finally block of _get_artifact_path_and_file_name: the temporary file
\* of a dataset is unlinked when the with block of the upload is left
AfterCleanup(files, src, path) ==
    IF src.kind = "DataFrame" THEN files \ {path} ELSE files

----------------------------------------------------------------------------
(* Handlers and the store *)

\* project ids tried
ProjectIds == { <<"p">>, <<"p", "2">> }

\* gretel_client.config.DEFAULT_GRETEL_ARTIFACT_ENDPOINT
DefaultArtifactEndpoint == <<"c", "l", "o", "u", "d">>

NoneEndpoint == <<"n", "o", "n", "e">>

LocalEndpoint == <<"/", "e">>

S3Endpoint == <<"s", "3", ":", "/", "/", "b">>

AzureEndpoint == <<"a", "z", "u", "r", "e", ":", "/", "/", "c">>

\* the artifact endpoints of the projects whose handler then uploads
UploadEndpoints ==
    { DefaultArtifactEndpoint, NoneEndpoint, LocalEndpoint, S3Endpoint, AzureEndpoint }

\* the values of client_config.artifact_endpoint tried
Endpoints ==
    { DefaultArtifactEndpoint, NoneEndpoint, LocalEndpoint, S3Endpoint, AzureEndpoint,
      <<"N", "o", "n", "e">>, <<>> }

NoHandler == [kind |-> "none yet", endpoint |-> <<>>, project_id |-> <<>>]

\* HybridArtifactsHandler(endpoint, project_id)
HybridArtifactsHandler(endpoint, project_id) ==
    [kind |-> "HybridArtifactsHandler", endpoint |-> endpoint, project_id |-> project_id]

\* NoneArtifactsHandler()
NoneArtifactsHandler == [kind |-> "NoneArtifactsHandler", endpoint |-> <<>>, project_id |-> <<>>]

\* CloudArtifactsHandler(projects_api, project_id, project_name)
CloudArtifactsHandler(project_id) ==
    [kind |-> "CloudArtifactsHandler", endpoint |-> <<>>, project_id |-> project_id]

\* variant: the guard against the default endpoint left out
HybridHandlerUnguarded(endpoint, project_id) ==
    IF endpoint = NoneEndpoint
    THEN [kind |-> "return", exc |-> "", msg |-> "", handler |-> NoneArtifactsHandler]
    ELSE [kind |-> "return", exc |-> "", msg |-> "",
          handler |-> HybridArtifactsHandler(endpoint, project_id)]

\* hybrid_handler(project): the handler returned or the exception raised
HybridHandlerResult(endpoint, project_id) ==
    IF endpoint = DefaultArtifactEndpoint
    THEN [kind |-> "raise", exc |-> "ArtifactsException",
          msg |-> "Cannot manage artifacts with hybrid strategy without custom artifact endpoint.",
          handler |-> NoHandler]
    ELSE IF endpoint = NoneEndpoint
    THEN [kind |-> "return", exc |-> "", msg |-> "", handler |-> NoneArtifactsHandler]
    ELSE [kind |-> "return", exc |-> "", msg |-> "",
          handler |-> HybridArtifactsHandler(endpoint, project_id)]

\* HybridArtifactsHandler.data_sources_dir
DataSourcesDir(h) == h.endpoint \o <<"/", "sources", "/">> \o h.project_id

\* the content of a file that was opened for writing and not written yet
EmptyContent == 0

\* the content of the dataset rendered by to_csv
CsvContent == 9

\* the files on the local disk before any call: path -> content
InitialStore ==
    ( <<"d", "/", "a", ".", "c">> :> 1 ) @@ ( <<"b">> :> 2 )

\* the path names a location outside the local file system: <scheme>://...
IsRemote(path) ==
    LET colon == FirstOf(path, {":"})
    IN  /\ colon > 1
        /\ colon + 2 <= Len(path)
        /\ path[colon + 1] = "/"
        /\ path[colon + 2] = "/"
        /\ \A j \in 1..(colon - 1) : path[j] \notin {"/", "?", "#"}

\* Path(path).expanduser().exists(); no path tried starts with "~"
LocalExists(path, st) == ~IsRemote(path) /\ path \in DOMAIN st

\* the artifact_path arguments tried on the Hybrid handler, besides the keys
\* earlier uploads returned
HybridSources ==
    { Str(<<"d", "/", "a", ".", "c">>),                   \* a local file
      PathObj(<<"d", "/", "a", ".", "c">>),               \* the same, as a Path
      Str(<<"b">>),                                       \* another local file
      Str(<<"d", "/", "x">>),                             \* no such local file
      PathObj(<<"d", "/", "x">>),
      Str(GretelPrefix \o <<"1", "_", "b">>),             \* a bare key
      Str(<<"s", "3", ":", "/", "/", "n", "/", "a", ".", "c">>),     \* "s3://n/a.c"
      Str(<<"h", "t", "t", "p", "s", ":", "/", "/", "h", "/", "a">>), \* "https://h/a"
      DataFrame }

\* uuid.uuid4().hex of the n-th uuid drawn
Hex(n) == IF n = 1 THEN "1" ELSE IF n = 2 THEN "2" ELSE IF n = 3 THEN "3" ELSE "4"

\* variant: the Cloud handler's test, a gretel_ prefix
HybridDoesNotRequireUploadByPrefix(artifact_path, st) ==
    artifact_path.kind = "str" /\ StartsWith(artifact_path.text, GretelPrefix)

\* variant: only a str is tested for existence
HybridDoesNotRequireUploadStrOnly(artifact_path, st) ==
    artifact_path.kind = "str" /\ ~LocalExists(artifact_path.text, st)

\* HybridArtifactsHandler._does_not_require_upload
HybridDoesNotRequireUpload(artifact_path, st) ==
    artifact_path.kind \in {"str", "Path"} /\ ~LocalExists(artifact_path.text, st)

\* variant: the target named after the source's file name alone
TargetOutNoUuid(h, n, name) == DataSourcesDir(h) \o <<"/">> \o name

\* target_out = f"{self.data_sources_dir}/gretel_{uuid.uuid4().hex}_{file_name}"
TargetOut(h, n, name) ==
    DataSourcesDir(h) \o <<"/">> \o GretelPrefix \o <<Hex(n)>> \o <<"_">> \o name

\* _get_transport_params asks for Azure credentials
NeedsAzureClient(endpoint) == StartsWith(endpoint, <<"a", "z", "u", "r", "e">>)

\* what smart_open.open(path, "rb") reads
ContentOf(path, st, temps) == IF path \in temps THEN CsvContent ELSE st[path]

\* variant: a link that always nests the key under the data sources directory
HybridLinkAlwaysNests(h, key) == DataSourcesDir(h) \o <<"/">> \o key

\* HybridArtifactsHandler.get_project_artifact_link
HybridLink(h, key) ==
    IF StartsWith(key, DataSourcesDir(h)) THEN key ELSE DataSourcesDir(h) \o <<"/">> \o key

NoOp ==
    [name |-> "none", arg |-> <<>>, kind |-> "none", exc |-> "", msg |-> "", value |-> <<>>]

\* gretel_client.projects.common.ModelArtifact: member -> value
ModelArtifact ==
    [MODEL |-> "model", REPORT |-> "report", REPORT_JSON |-> "report_json",
     MODEL_LOGS |-> "model_logs", DATA_PREVIEW |-> "data_preview",
     CLASSIFICATION_REPORT |-> "classification_report",
     CLASSIFICATION_REPORT_JSON |-> "classification_report_json",
     REGRESSION_REPORT |-> "regression_report",
     REGRESSION_REPORT_JSON |-> "regression_report_json",
     TEXT_METRICS_REPORT |-> "text_metrics_report",
     TEXT_METRICS_REPORT_JSON |-> "text_metrics_report_json"]

\* gretel_client.projects.common.ModelRunArtifact: member -> value
ModelRunArtifact ==
    [RUN_REPORT_JSON |-> "run_report_json", DATA |-> "data", RUN_LOGS |-> "run_logs",
     OUTPUT_FILES |-> "output_files"]

\* ARTIFACT_FILENAMES
ARTIFACT_FILENAMES ==
    (ModelArtifact.MODEL :> "model.tar.gz") @@
    (ModelArtifact.REPORT :> "report.html.gz") @@
    (ModelArtifact.REPORT_JSON :> "report_json.json.gz") @@
    (ModelArtifact.MODEL_LOGS :> "logs.json.gz") @@
    (ModelArtifact.DATA_PREVIEW :> "data_preview.gz") @@
    (ModelArtifact.CLASSIFICATION_REPORT :> "classification_report.html.gz") @@
    (ModelArtifact.CLASSIFICATION_REPORT_JSON :> "classification_report_json.json.gz") @@
    (ModelArtifact.REGRESSION_REPORT :> "regression_report.html.gz") @@
    (ModelArtifact.REGRESSION_REPORT_JSON :> "regression_report_json.json.gz") @@
    (ModelArtifact.TEXT_METRICS_REPORT :> "text_metrics_report.html.gz") @@
    (ModelArtifact.TEXT_METRICS_REPORT_JSON :> "text_metrics_report_json.json.gz") @@
    (ModelRunArtifact.RUN_REPORT_JSON :> "run_report_json.json.gz") @@
    (ModelRunArtifact.DATA :> "data.gz") @@
    (ModelRunArtifact.RUN_LOGS :> "logs.json.gz") @@
    (ModelRunArtifact.OUTPUT_FILES :> "output_files.tar.gz")

\* the artifact_type arguments tried: every key of the table, and strings
\* that are no key of it
ArtifactTypes == DOMAIN ARTIFACT_FILENAMES \cup {"nonsense", "MODEL", ""}

\* variant: an unknown type falls back to the type's own name
FilenameOrTypeName(type) ==
    IF type \in DOMAIN ARTIFACT_FILENAMES THEN <<ARTIFACT_FILENAMES[type]>> ELSE <<type>>

\* ARTIFACT_FILENAMES.get(artifact_type): <<filename>>, or <<>> for None
FilenameGet(type) ==
    IF type \in DOMAIN ARTIFACT_FILENAMES THEN <<ARTIFACT_FILENAMES[type]>> ELSE <<>>

\* the model_id and record_handler_id arguments tried
ModelIds == { <<"m">> }

RecordHandlerIds == { <<"r">> }

\* the key arguments tried, besides the links earlier calls returned
Keys ==
    { <<"k">>,
      <<"d", "/", "k">>,
      LocalEndpoint \o <<"/", "sources", "/", "p", "/", "k">>,
      LocalEndpoint \o <<"/", "sources", "/", "p", "2", "/", "k">>,
      LocalEndpoint \o <<"/", "sources", "/", "p">>,
      LocalEndpoint \o <<"/", "sources", "/">>,
      S3Endpoint \o <<"/", "sources", "/", "p", "/", "k">>,
      <<>> }

\* what an operation returned
OpReturn(name, arg, value) ==
    [name |-> name, arg |-> arg, kind |-> "return", exc |-> "", msg |-> "", value |-> value]

\* what an operation raised
OpRaise(name, arg, exc, msg) ==
    [name |-> name, arg |-> arg, kind |-> "raise", exc |-> exc, msg |-> msg, value |-> <<>>]

\* variant: the None handler raises the exception of the Hybrid handler
NoneRaiseArtifactsException(name, arg) ==
    OpRaise(name, arg, "ArtifactsException", "no artifact endpoint is configured")

\* raise NotImplementedError("no artifact endpoint is configured")
NoneRaise(name, arg) ==
    OpRaise(name, arg, "NotImplementedError", "no artifact endpoint is configured")

\* variant: delete on the Hybrid handler does nothing and returns None
HybridDeleteReturnsNone(key) == OpReturn("delete_project_artifact", key, None)

\* HybridArtifactsHandler.delete_project_artifact
HybridDelete(key) ==
    OpRaise("delete_project_artifact", key, "ArtifactsException",
            "Cannot delete hybrid artifacts")

\* HybridArtifactsHandler.list_project_artifacts
HybridList ==
    OpRaise("list_project_artifacts", <<>>, "ArtifactsException",
            "Cannot list hybrid artifacts")

\* HybridArtifactsHandler.get_project_artifact_manifest
HybridManifest(key, rnf, rp) ==
    OpRaise("get_project_artifact_manifest", <<key, rnf, rp>>, "ArtifactsException",
            "Artifact manifests do not exist for hybrid artifacts")

\* HybridArtifactsHandler.get_model_artifact_link
HybridModelLink(h, model_id, type) ==
    LET filename == FilenameGet(type)
        arg == <<model_id, type>>
    IN  IF filename = <<>>
        THEN OpRaise("get_model_artifact_link", arg, "ArtifactsException",
                     "Unrecognized artifact type")
        ELSE OpReturn("get_model_artifact_link", arg,
                      h.endpoint \o <<"/">> \o h.project_id \o <<"/", "model", "/">>
                          \o model_id \o <<"/">> \o filename)

\* HybridArtifactsHandler.get_record_handler_artifact_link
HybridRecordHandlerLink(h, model_id, record_handler_id, type) ==
    LET filename == FilenameGet(type)
        arg == <<model_id, record_handler_id, type>>
    IN  IF filename = <<>>
        THEN OpRaise("get_record_handler_artifact_link", arg, "ArtifactsException",
                     "Unrecognized artifact type")
        ELSE OpReturn("get_record_handler_artifact_link", arg,
                      h.endpoint \o <<"/">> \o h.project_id \o <<"/", "run", "/">>
                          \o record_handler_id \o <<"/">> \o filename)

\* the threads that call upload_project_artifact on one handler at a time
Callers == {"t1", "t2"}

\* the artifact_path arguments the concurrent callers pass
ConcurrentSources ==
    { Str(<<"d", "/", "a", ".", "c">>),
      PathObj(<<"d", "/", "a", ".", "c">>),
      Str(<<"b">>),
      Str(<<"d", "/", "x">>) }

\* a caller that has not called yet
NoCall ==
    [pc |-> "idle", source |-> NoSource, artPath |-> <<>>, fileName |-> <<>>,
     targetOut |-> <<>>, outcome |-> UploadRunning]

DownloadRunning == [kind |-> "running", exc |-> ""]

\* the download call returned None
DownloadReturned == [kind |-> "return", exc |-> ""]

DownloadRaised(exc) == [kind |-> "raise", exc |-> exc]

\* download calls started in one behaviour
MaxDownloads == 2

\* the content of the object a remote link names
ArtifactContent == 5

\* the download_link arguments tried
DownloadLinks ==
    { <<"d", "/", "a", ".", "c">>,                                   \* an existing local file
      LocalEndpoint \o <<"/", "p", "/", "model", "/", "m", "/", "report.html.gz">>,
                                                                     \* no such local file
      S3Endpoint \o <<"/", "p", "/", "model", "/", "m", "/", "report.html.gz">>,
      <<"h", "t", "t", "p", "s", ":", "/", "/", "h", "/", "r", ".", "g", "z", "?", "s">> }
                                                                     \* "https://h/r.gz?s"

\* the output_path arguments tried
OutputPaths == { <<"o">>, <<"d">> }

\* the artifact_type arguments of download tried
DownloadTypes == { ModelArtifact.REPORT, ModelRunArtifact.DATA }

\* target_out = output_path / Path(urlparse(download_link).path).name
DownloadTargetOut(link, out) == out \o <<"/">> \o FileNameOf(link)

\* what smart_open.open(download_link, "rb") reads
LinkContent(link, st) == IF IsRemote(link) THEN ArtifactContent ELSE st[link]

\* variant: the except clause swallows the failure without a message
LogNothing(log, type) == log

\* log.error(f"Could not download {artifact_type}. ...")
LogError(log, type) == Append(log, type)

----------------------------------------------------------------------------
(* configure_hybrid_session (src/src/gretel_client/_hybrid/config.py) *)

\* configure_hybrid_session calls made in one behaviour
MaxConfigures == 2

\* a keyword argument that was not passed
Omitted == [given |-> FALSE, value |-> <<>>]

\* a keyword argument that was passed
Given(value) == [given |-> TRUE, value |-> value]

\* the member of RunnerMode with this value
RunnerMode(name) == [type |-> "RunnerMode", name |-> name]

\* RunnerMode.parse: a member is returned as it is, the name of a member is
\* replaced by the member
RunnerModeParse(v) == IF v.type = "RunnerMode" THEN v ELSE RunnerMode(v.name)

\* the default_runner keyword arguments tried: members and names of members
DefaultRunnerArgs ==
    { Omitted }
    \cup { Given(RunnerMode(n)) : n \in {"hybrid", "cloud"} }
    \cup { Given([type |-> "str", name |-> n]) : n \in {"hybrid", "cloud", "local", "manual"} }

\* the artifact_endpoint keyword arguments tried
ArtifactEndpointArgs ==
    { Omitted, Given(<<"c", "l", "o", "u", "d">>), Given(NoneEndpoint), Given(S3Endpoint),
      Given(LocalEndpoint) }

\* kwargs.pop(name, default)
KwargsPop(arg, default) == IF arg.given THEN arg.value ELSE default

\* the main session before configure_hybrid_session is called
InitialSession ==
    [class |-> "ClientConfig", default_runner |-> RunnerMode("cloud"),
     artifact_endpoint |-> DefaultArtifactEndpoint]

\* the session that configure_session(default_runner=..., artifact_endpoint=...) sets
ConfiguredSession(runner, endpoint) ==
    [class |-> "ClientConfig", default_runner |-> runner, artifact_endpoint |-> endpoint]

\* hybrid_session_config(...): _HybridSessionConfig with the settings of the session
HybridSessionConfig(sess) == [sess EXCEPT !.class = "_HybridSessionConfig"]

\* variant: the artifact endpoint is not validated
HybridSessionValidationRunnerOnly(runnerArg, endpointArg) ==
    IF RunnerModeParse(KwargsPop(runnerArg, RunnerMode("hybrid"))) # RunnerMode("hybrid")
    THEN "ValueError"
    ELSE "valid"

\* the two checks configure_hybrid_session makes before it calls anything
HybridSessionValidation(runnerArg, endpointArg) ==
    IF RunnerModeParse(KwargsPop(runnerArg, RunnerMode("hybrid"))) # RunnerMode("hybrid")
    THEN "ValueError"
    ELSE IF KwargsPop(endpointArg, <<"n", "o", "n", "e">>) = <<"c", "l", "o", "u", "d">>
    THEN "ValueError"
    ELSE "valid"

----------------------------------------------------------------------------

Init ==
    /\ pc = "idle"
    /\ retry_on_not_found = TRUE
    /\ retry_on_pending = TRUE
    /\ notFoundAttempt = 0
    /\ pendingAttempt = 0
    /\ fetches = 0
    /\ waited = 0
    /\ outcome = Running
    /\ lastAnswer = NoAnswer
    /\ nfAnswers = 0
    /\ nfRun = 0
    /\ pendingAnswers = 0
    /\ nfAfterPending = FALSE
    /\ upc = "idle"
    /\ source = NoSource
    /\ artPath = <<>>
    /\ fileName = <<>>
    /\ tempFiles = {}
    /\ tempCreated = 0
    /\ uploads = 0
    /\ openStreams = 0
    /\ streamsOpened = 0
    /\ slots = {}
    /\ createCalls = 0
    /\ putCalls = 0
    /\ slotKey = NoKey
    /\ putAnswer = "none"
    /\ uploadOutcome = UploadRunning
    /\ handler = NoHandler
    /\ store = InitialStore
    /\ uuids = 0
    /\ targetOut = <<>>
    /\ returnedKeys = {}
    /\ storedAtCall = {}
    /\ op = NoOp
    /\ dpc = "idle"
    /\ downloads = 0
    /\ download_link = <<>>
    /\ output_path = <<>>
    /\ artifact_type = ""
    /\ target_out = <<>>
    /\ logged = <<>>
    /\ existedAtCall = {}
    /\ downloadOutcome = DownloadRunning
    /\ calls = [c \in Callers |-> NoCall]
    /\ cpc = "idle"
    /\ configures = 0
    /\ default_runner = Omitted
    /\ artifact_endpoint = Omitted
    /\ session = InitialSession
    /\ sessionAtCall = InitialSession
    /\ sessionLog = <<>>
    /\ configureOutcome = DownloadRunning

----------------------------------------------------------------------------
(* get_project_artifact_manifest: the steps of one call *)

\* the caller calls get_project_artifact_manifest(key, rnf, rp)
CallManifest(rnf, rp) ==
    /\ pc = "idle"
    /\ pc' = "fetch"
    /\ retry_on_not_found' = rnf
    /\ retry_on_pending' = rp
    /\ notFoundAttempt' = 1
    /\ pendingAttempt' = 1
    /\ UNCHANGED <<fetches, waited, outcome, lastAnswer, nfAnswers, nfRun, pendingAnswers,
                   nfAfterPending>>
    /\ UNCHANGED <<uploadVars, handlerVars>>

\* one attempt: the fetch is answered by `ans`, the body runs, and the two
\* Retrying objects decide between a sleep and the end of the call
Attempt(ans) ==
    /\ pc = "fetch"
    /\ fetches' = fetches + 1
    /\ lastAnswer' = ans
    /\ nfAnswers' = IF IsNotFound(ans) THEN nfAnswers + 1 ELSE nfAnswers
    /\ nfRun' = IF IsNotFound(ans) THEN nfRun + 1 ELSE 0
    /\ nfAfterPending' = (nfAfterPending \/ (IsNotFound(ans) /\ pendingAnswers > 0))
    /\ pendingAnswers' = IF IsPending(ans) THEN pendingAnswers + 1 ELSE pendingAnswers
    /\ LET body == Body(ans, retry_on_not_found, retry_on_pending)
           inner == NotFoundRetrying(body, notFoundAttempt)
           outer == PendingRetrying(inner.out, pendingAttempt)
       IN  IF inner.next = "sleep"
           THEN /\ pc' = "sleepNotFound"
                /\ outcome' = outcome
           ELSE IF outer.next = "sleep"
           THEN /\ pc' = "sleepPending"
                /\ outcome' = outcome
           ELSE /\ pc' = "done"
                /\ outcome' = outer.out
    /\ UNCHANGED <<retry_on_not_found, retry_on_pending, notFoundAttempt, pendingAttempt, waited>>
    /\ UNCHANGED <<uploadVars, handlerVars>>

FetchNotFound == Attempt(Answer404)

FetchEmpty == Attempt(AnswerResp(None))

FetchPending == \E m \in PendingManifests : Attempt(AnswerResp(m))

FetchFinal == \E m \in FinalManifests : Attempt(AnswerResp(m))

FetchError == \E c \in 1..MaxErrorCode : Attempt(AnswerError(c))

\* variant: the inner Retrying waits as long as the outer one
SleepNotFoundAsPending ==
    /\ pc = "sleepNotFound"
    /\ waited' = waited + PendingWait
    /\ notFoundAttempt' = notFoundAttempt + 1
    /\ pc' = "fetch"
    /\ UNCHANGED <<retry_on_not_found, retry_on_pending, pendingAttempt, fetches, outcome,
                   lastAnswer, nfAnswers, nfRun, pendingAnswers, nfAfterPending>>
    /\ UNCHANGED <<uploadVars, handlerVars>>

\* inner Retrying: wait_fixed(3), then the next attempt of the body
SleepNotFound ==
    /\ pc = "sleepNotFound"
    /\ waited' = waited + NotFoundWait
    /\ notFoundAttempt' = notFoundAttempt + 1
    /\ pc' = "fetch"
    /\ UNCHANGED <<retry_on_not_found, retry_on_pending, pendingAttempt, fetches, outcome,
                   lastAnswer, nfAnswers, nfRun, pendingAnswers, nfAfterPending>>
    /\ UNCHANGED <<uploadVars, handlerVars>>

\* outer Retrying: wait_fixed(2), then the next attempt, which calls the inner
\* decorated function afresh (a new inner Retrying, attempt_number 1)
SleepPending ==
    /\ pc = "sleepPending"
    /\ waited' = waited + PendingWait
    /\ pendingAttempt' = pendingAttempt + 1
    /\ notFoundAttempt' = 1
    /\ pc' = "fetch"
    /\ UNCHANGED <<retry_on_not_found, retry_on_pending, fetches, outcome,
                   lastAnswer, nfAnswers, nfRun, pendingAnswers, nfAfterPending>>
    /\ UNCHANGED <<uploadVars, handlerVars>>

Next ==
    \/ \E rnf \in BOOLEAN, rp \in BOOLEAN : CallManifest(rnf, rp)
    \/ FetchNotFound
    \/ FetchEmpty
    \/ FetchPending
    \/ FetchFinal
    \/ FetchError
    \/ SleepNotFound
    \/ SleepPending

Spec == Init /\ [][Next]_vars

\* the call runs on: the thread that made it takes its next step, and every
\* fetch is answered, in whatever way
SpecFair == Init /\ [][Next]_vars /\ WF_vars(Next)

----------------------------------------------------------------------------
(* CloudArtifactsHandler.upload_project_artifact: the steps of a call *)

\* the caller calls upload_project_artifact(src); a source that does not
\* require upload is returned at once
CloudUploadCall(src) ==
    /\ upc = "idle"
    /\ uploads < MaxUploads
    /\ uploads' = uploads + 1
    /\ source' = src
    /\ artPath' = <<>>
    /\ fileName' = <<>>
    /\ slotKey' = NoKey
    /\ IF CloudDoesNotRequireUpload(src)
       THEN /\ upc' = "done"
            /\ uploadOutcome' = UploadReturn(src)
       ELSE /\ upc' = "materialize"
            /\ uploadOutcome' = UploadRunning
    /\ UNCHANGED <<tempFiles, tempCreated, openStreams, streamsOpened, slots, createCalls, putCalls>>
    /\ putAnswer' = "none"
    /\ UNCHANGED <<manifestVars, handlerVars>>

\* _get_artifact_path_and_file_name on a str or a Path
MaterializePath ==
    /\ upc = "materialize"
    /\ source.kind \in {"str", "Path"}
    /\ artPath' = source.text
    /\ fileName' = FileNameOf(source.text)
    /\ upc' = "open"
    /\ UNCHANGED <<source, tempFiles, tempCreated, uploads, openStreams, streamsOpened, slots,
                   createCalls, putCalls, slotKey, uploadOutcome>>
    /\ UNCHANGED putAnswer
    /\ UNCHANGED <<manifestVars, handlerVars>>

\* _get_artifact_path_and_file_name on a dataset: a temporary file is created
\* and the dataset written to it
MaterializeDataFrame ==
    /\ upc = "materialize"
    /\ source.kind = "DataFrame"
    /\ tempCreated' = tempCreated + 1
    /\ tempFiles' = tempFiles \cup {TempName(tempCreated + 1)}
    /\ artPath' = TempName(tempCreated + 1)
    /\ fileName' = DataFrameFileName
    /\ upc' = "open"
    /\ UNCHANGED <<source, uploads, openStreams, streamsOpened, slots, createCalls, putCalls,
                   slotKey, uploadOutcome>>
    /\ UNCHANGED putAnswer
    /\ UNCHANGED <<manifestVars, handlerVars>>

\* to_csv raises: the temporary file exists already, and the try/finally that
\* unlinks it has not been entered
MaterializeDataFrameFails ==
    /\ upc = "materialize"
    /\ source.kind = "DataFrame"
    /\ tempCreated' = tempCreated + 1
    /\ tempFiles' = tempFiles \cup {TempName(tempCreated + 1)}
    /\ upc' = "done"
    /\ uploadOutcome' = UploadRaise("to_csv")
    /\ UNCHANGED <<source, artPath, fileName, uploads, openStreams, streamsOpened, slots,
                   createCalls, putCalls, slotKey>>
    /\ UNCHANGED putAnswer
    /\ UNCHANGED <<manifestVars, handlerVars>>

\* smart_open.open(artifact_path, "rb") succeeds
OpenSource ==
    /\ upc = "open"
    /\ openStreams' = openStreams + 1
    /\ streamsOpened' = streamsOpened + 1
    /\ upc' = "create"
    /\ UNCHANGED <<source, artPath, fileName, tempFiles, tempCreated, uploads, slots,
                   createCalls, putCalls, slotKey, uploadOutcome>>
    /\ UNCHANGED putAnswer
    /\ UNCHANGED <<manifestVars, handlerVars>>

\* smart_open.open raises (no such file, no access)
OpenSourceFails ==
    /\ upc = "open"
    /\ tempFiles' = AfterCleanup(tempFiles, source, artPath)
    /\ upc' = "done"
    /\ uploadOutcome' = UploadRaise("open")
    /\ UNCHANGED <<source, artPath, fileName, tempCreated, uploads, openStreams, streamsOpened,
                   slots, createCalls, putCalls, slotKey>>
    /\ UNCHANGED putAnswer
    /\ UNCHANGED <<manifestVars, handlerVars>>

\* projects_api.create_artifact answers with a key and an upload URL
CreateArtifact ==
    /\ upc = "create"
    /\ createCalls' = createCalls + 1
    /\ slotKey' = ServiceKey(Cardinality(slots) + 1, fileName)
    /\ slots' = slots \cup {ServiceKey(Cardinality(slots) + 1, fileName)}
    /\ upc' = "put"
    /\ UNCHANGED <<source, artPath, fileName, tempFiles, tempCreated, uploads, openStreams,
                   streamsOpened, putCalls, uploadOutcome>>
    /\ UNCHANGED putAnswer
    /\ UNCHANGED <<manifestVars, handlerVars>>

\* projects_api.create_artifact raises
CreateArtifactFails ==
    /\ upc = "create"
    /\ createCalls' = createCalls + 1
    /\ openStreams' = openStreams - 1
    /\ tempFiles' = AfterCleanup(tempFiles, source, artPath)
    /\ upc' = "done"
    /\ uploadOutcome' = UploadRaise("ApiException")
    /\ UNCHANGED <<source, artPath, fileName, tempCreated, uploads, streamsOpened, slots,
                   putCalls, slotKey>>
    /\ UNCHANGED putAnswer
    /\ UNCHANGED <<manifestVars, handlerVars>>

\* requests.put answers with a success status: the key is returned
PutSucceeds ==
    /\ upc = "put"
    /\ putCalls' = putCalls + 1
    /\ openStreams' = openStreams - 1
    /\ tempFiles' = AfterCleanup(tempFiles, source, artPath)
    /\ upc' = "done"
    /\ uploadOutcome' = UploadReturn(Str(slotKey))
    /\ UNCHANGED <<source, artPath, fileName, tempCreated, uploads, streamsOpened, slots,
                   createCalls, slotKey>>
    /\ putAnswer' = "success status"
    /\ UNCHANGED <<manifestVars, handlerVars>>

\* requests.put raises (transport error)
PutTransportError ==
    /\ upc = "put"
    /\ putCalls' = putCalls + 1
    /\ openStreams' = openStreams - 1
    /\ tempFiles' = AfterCleanup(tempFiles, source, artPath)
    /\ upc' = "done"
    /\ uploadOutcome' = UploadRaise("ConnectionError")
    /\ UNCHANGED <<source, artPath, fileName, tempCreated, uploads, streamsOpened, slots,
                   createCalls, slotKey>>
    /\ putAnswer' = "transport error"
    /\ UNCHANGED <<manifestVars, handlerVars>>

\* variant: the status of the answer is not looked at and the key is returned
PutFailureStatusIgnored ==
    /\ upc = "put"
    /\ putCalls' = putCalls + 1
    /\ openStreams' = openStreams - 1
    /\ tempFiles' = AfterCleanup(tempFiles, source, artPath)
    /\ upc' = "done"
    /\ uploadOutcome' = UploadReturn(Str(slotKey))
    /\ UNCHANGED <<source, artPath, fileName, tempCreated, uploads, streamsOpened, slots,
                   createCalls, slotKey>>
    /\ putAnswer' = "failure status"
    /\ UNCHANGED <<manifestVars, handlerVars>>

\* requests.put answers with a failure status: raise_for_status raises
PutFailureStatus ==
    /\ upc = "put"
    /\ putCalls' = putCalls + 1
    /\ openStreams' = openStreams - 1
    /\ tempFiles' = AfterCleanup(tempFiles, source, artPath)
    /\ upc' = "done"
    /\ uploadOutcome' = UploadRaise("HTTPError")
    /\ UNCHANGED <<source, artPath, fileName, tempCreated, uploads, streamsOpened, slots,
                   createCalls, slotKey>>
    /\ putAnswer' = "failure status"
    /\ UNCHANGED <<manifestVars, handlerVars>>

\* the call has ended; the handler is ready for the caller's next call
UploadDone ==
    /\ upc = "done"
    /\ upc' = "idle"
    /\ UNCHANGED <<source, artPath, fileName, tempFiles, tempCreated, uploads, openStreams,
                   streamsOpened, slots, createCalls, putCalls, slotKey, uploadOutcome>>
    /\ UNCHANGED putAnswer
    /\ UNCHANGED <<manifestVars, handlerVars>>

NextUpload ==
    \/ \E src \in Sources \cup {Str(key) : key \in slots} : CloudUploadCall(src)
    \/ MaterializePath
    \/ MaterializeDataFrame
    \/ MaterializeDataFrameFails
    \/ OpenSource
    \/ OpenSourceFails
    \/ CreateArtifact
    \/ CreateArtifactFails
    \/ PutSucceeds
    \/ PutTransportError
    \/ PutFailureStatus
    \/ UploadDone

SpecUpload == Init /\ [][NextUpload]_vars

----------------------------------------------------------------------------
(* hybrid_handler and HybridArtifactsHandler.upload_project_artifact *)

\* the caller calls hybrid_handler(project) for a project with this
\* artifact endpoint and project id
HybridHandlerCall(endpoint, project_id) ==
    /\ handler = NoHandler
    /\ op = NoOp
    /\ LET res == HybridHandlerResult(endpoint, project_id)
       IN  /\ handler' = res.handler
           /\ op' = [name |-> "hybrid_handler", arg |-> <<endpoint, project_id>>,
                     kind |-> res.kind, exc |-> res.exc, msg |-> res.msg,
                     value |-> res.handler]
    /\ UNCHANGED <<store, uuids, targetOut, returnedKeys, storedAtCall>>
    /\ UNCHANGED <<manifestVars, concurrentVars, sessionVars, uploadVars, downloadVars>>

\* the caller calls upload_project_artifact(src) on the Hybrid handler; a
\* source that does not require upload is returned at once
HybridUploadCall(src) ==
    /\ handler.kind = "HybridArtifactsHandler"
    /\ upc = "idle"
    /\ uploads < MaxUploads
    /\ uploads' = uploads + 1
    /\ source' = src
    /\ artPath' = <<>>
    /\ fileName' = <<>>
    /\ targetOut' = <<>>
    /\ storedAtCall' = DOMAIN store
    /\ IF HybridDoesNotRequireUpload(src, store)
       THEN /\ upc' = "done"
            /\ uploadOutcome' = UploadReturn(src)
       ELSE /\ upc' = "materialize"
            /\ uploadOutcome' = UploadRunning
    /\ UNCHANGED <<tempFiles, tempCreated, openStreams, streamsOpened, cloudOnlyVars>>
    /\ UNCHANGED <<handler, store, uuids, returnedKeys>>
    /\ UNCHANGED <<manifestVars, concurrentVars, sessionVars, opVars, downloadVars>>

\* the target is named and _get_transport_params(self.endpoint) raises: no
\* Azure credentials, or a SAS URL of another container
HybridTransportParamsFail ==
    /\ handler.kind = "HybridArtifactsHandler"
    /\ upc = "open"
    /\ NeedsAzureClient(handler.endpoint)
    /\ uuids' = uuids + 1
    /\ targetOut' = TargetOut(handler, uuids + 1, fileName)
    /\ tempFiles' = AfterCleanup(tempFiles, source, artPath)
    /\ upc' = "done"
    /\ uploadOutcome' = UploadRaise("ArtifactsException")
    /\ UNCHANGED <<source, artPath, fileName, tempCreated, uploads, openStreams, streamsOpened,
                   cloudOnlyVars>>
    /\ UNCHANGED <<handler, store, returnedKeys, storedAtCall>>
    /\ UNCHANGED <<manifestVars, concurrentVars, sessionVars, opVars, downloadVars>>

\* the target is named and smart_open.open(artifact_path, "rb") succeeds
HybridOpenSource ==
    /\ handler.kind = "HybridArtifactsHandler"
    /\ upc = "open"
    /\ artPath \in tempFiles \/ LocalExists(artPath, store)
    /\ uuids' = uuids + 1
    /\ targetOut' = TargetOut(handler, uuids + 1, fileName)
    /\ openStreams' = openStreams + 1
    /\ streamsOpened' = streamsOpened + 1
    /\ upc' = "openTarget"
    /\ UNCHANGED <<source, artPath, fileName, tempFiles, tempCreated, uploads, cloudOnlyVars,
                   uploadOutcome>>
    /\ UNCHANGED <<handler, store, returnedKeys, storedAtCall>>
    /\ UNCHANGED <<manifestVars, concurrentVars, sessionVars, opVars, downloadVars>>

\* variant: the target is opened for writing before the source is opened
HybridOpenSourceFailsAfterTarget ==
    /\ handler.kind = "HybridArtifactsHandler"
    /\ upc = "open"
    /\ uuids' = uuids + 1
    /\ targetOut' = TargetOut(handler, uuids + 1, fileName)
    /\ store' = [q \in DOMAIN store \cup {TargetOut(handler, uuids + 1, fileName)} |->
                    IF q \in DOMAIN store THEN store[q] ELSE EmptyContent]
    /\ tempFiles' = AfterCleanup(tempFiles, source, artPath)
    /\ upc' = "done"
    /\ uploadOutcome' = UploadRaise("open")
    /\ UNCHANGED <<source, artPath, fileName, tempCreated, uploads, openStreams, streamsOpened,
                   cloudOnlyVars>>
    /\ UNCHANGED <<handler, returnedKeys, storedAtCall>>
    /\ UNCHANGED <<manifestVars, concurrentVars, sessionVars, opVars, downloadVars>>

\* the target is named and smart_open.open(artifact_path, "rb") raises
HybridOpenSourceFails ==
    /\ handler.kind = "HybridArtifactsHandler"
    /\ upc = "open"
    /\ uuids' = uuids + 1
    /\ targetOut' = TargetOut(handler, uuids + 1, fileName)
    /\ tempFiles' = AfterCleanup(tempFiles, source, artPath)
    /\ upc' = "done"
    /\ uploadOutcome' = UploadRaise("open")
    /\ UNCHANGED <<source, artPath, fileName, tempCreated, uploads, openStreams, streamsOpened,
                   cloudOnlyVars>>
    /\ UNCHANGED <<handler, store, returnedKeys, storedAtCall>>
    /\ UNCHANGED <<manifestVars, concurrentVars, sessionVars, opVars, downloadVars>>

\* smart_open.open(target_out, "wb") succeeds: the target exists, empty
HybridOpenTarget ==
    /\ upc = "openTarget"
    /\ store' = [q \in DOMAIN store \cup {targetOut} |->
                    IF q = targetOut THEN EmptyContent ELSE store[q]]
    /\ openStreams' = openStreams + 1
    /\ streamsOpened' = streamsOpened + 1
    /\ upc' = "copy"
    /\ UNCHANGED <<source, artPath, fileName, tempFiles, tempCreated, uploads, cloudOnlyVars,
                   uploadOutcome>>
    /\ UNCHANGED <<handler, uuids, targetOut, returnedKeys, storedAtCall>>
    /\ UNCHANGED <<manifestVars, concurrentVars, sessionVars, opVars, downloadVars>>

\* smart_open.open(target_out, "wb") raises: in_stream is closed
HybridOpenTargetFails ==
    /\ upc = "openTarget"
    /\ openStreams' = openStreams - 1
    /\ tempFiles' = AfterCleanup(tempFiles, source, artPath)
    /\ upc' = "done"
    /\ uploadOutcome' = UploadRaise("open")
    /\ UNCHANGED <<source, artPath, fileName, tempCreated, uploads, streamsOpened,
                   cloudOnlyVars>>
    /\ UNCHANGED hybridVars
    /\ UNCHANGED <<manifestVars, concurrentVars, sessionVars, opVars, downloadVars>>

\* shutil.copyfileobj copies every byte; both streams are closed and
\* target_out is returned
HybridCopy ==
    /\ upc = "copy"
    /\ store' = [store EXCEPT ![targetOut] = ContentOf(artPath, store, tempFiles)]
    /\ openStreams' = openStreams - 2
    /\ tempFiles' = AfterCleanup(tempFiles, source, artPath)
    /\ returnedKeys' = returnedKeys \cup {targetOut}
    /\ upc' = "done"
    /\ uploadOutcome' = UploadReturn(Str(targetOut))
    /\ UNCHANGED <<source, artPath, fileName, tempCreated, uploads, streamsOpened,
                   cloudOnlyVars>>
    /\ UNCHANGED <<handler, uuids, targetOut, storedAtCall>>
    /\ UNCHANGED <<manifestVars, concurrentVars, sessionVars, opVars, downloadVars>>

\* shutil.copyfileobj raises part-way: both streams are closed; a local
\* target keeps what was written, a remote upload is aborted
HybridCopyFails ==
    /\ upc = "copy"
    /\ store' = IF IsRemote(targetOut)
                THEN [q \in DOMAIN store \ {targetOut} |-> store[q]]
                ELSE store
    /\ openStreams' = openStreams - 2
    /\ tempFiles' = AfterCleanup(tempFiles, source, artPath)
    /\ upc' = "done"
    /\ uploadOutcome' = UploadRaise("copy")
    /\ UNCHANGED <<source, artPath, fileName, tempCreated, uploads, streamsOpened,
                   cloudOnlyVars>>
    /\ UNCHANGED <<handler, uuids, targetOut, returnedKeys, storedAtCall>>
    /\ UNCHANGED <<manifestVars, concurrentVars, sessionVars, opVars, downloadVars>>

NextHybrid ==
    \/ \E endpoint \in UploadEndpoints, project_id \in ProjectIds :
          HybridHandlerCall(endpoint, project_id)
    \/ \E src \in HybridSources \cup {Str(key) : key \in returnedKeys} : HybridUploadCall(src)
    \/ MaterializePath
    \/ MaterializeDataFrame
    \/ MaterializeDataFrameFails
    \/ HybridTransportParamsFail
    \/ HybridOpenSource
    \/ HybridOpenSourceFails
    \/ HybridOpenTarget
    \/ HybridOpenTargetFails
    \/ HybridCopy
    \/ HybridCopyFails
    \/ UploadDone

SpecHybrid == Init /\ [][NextHybrid]_vars

\* another actor deletes the local source file of the upload in progress,
\* after _does_not_require_upload saw it and before it is opened
OtherActorDeletesSource ==
    /\ handler.kind = "HybridArtifactsHandler"
    /\ upc \in {"materialize", "open"}
    /\ source.kind \in {"str", "Path"}
    /\ source.text \in DOMAIN store
    /\ store' = [q \in DOMAIN store \ {source.text} |-> store[q]]
    /\ UNCHANGED <<handler, uuids, targetOut, returnedKeys, storedAtCall>>
    /\ UNCHANGED <<manifestVars, concurrentVars, sessionVars, uploadVars, opVars, downloadVars>>

NextHybridRace ==
    \/ NextHybrid
    \/ OtherActorDeletesSource

SpecHybridRace == Init /\ [][NextHybridRace]_vars

----------------------------------------------------------------------------
(* Two threads call upload_project_artifact on one Hybrid handler *)

\* variables the concurrent uploads leave alone
concurrentFrame ==
    <<manifestVars, uploadVars, opVars, downloadVars, sessionVars, handler, targetOut,
      returnedKeys, storedAtCall>>

\* caller c calls upload_project_artifact(src); a source that does not
\* require upload is returned at once, any other is given its file name
ConcurrentUploadCall(c, src) ==
    /\ handler.kind = "HybridArtifactsHandler"
    /\ calls[c].pc = "idle"
    /\ calls' = [calls EXCEPT ![c] =
                    IF HybridDoesNotRequireUpload(src, store)
                    THEN [NoCall EXCEPT !.pc = "done", !.source = src,
                                        !.outcome = UploadReturn(src)]
                    ELSE [NoCall EXCEPT !.pc = "open", !.source = src,
                                        !.artPath = src.text,
                                        !.fileName = FileNameOf(src.text)]]
    /\ UNCHANGED <<store, uuids>>
    /\ UNCHANGED concurrentFrame

\* caller c names its target and opens its source
ConcurrentOpenSource(c) ==
    /\ calls[c].pc = "open"
    /\ LocalExists(calls[c].artPath, store)
    /\ uuids' = uuids + 1
    /\ calls' = [calls EXCEPT ![c].pc = "openTarget",
                              ![c].targetOut = TargetOut(handler, uuids + 1, calls[c].fileName)]
    /\ UNCHANGED store
    /\ UNCHANGED concurrentFrame

\* caller c names its target and fails to open its source
ConcurrentOpenSourceFails(c) ==
    /\ calls[c].pc = "open"
    /\ uuids' = uuids + 1
    /\ calls' = [calls EXCEPT ![c].pc = "done",
                              ![c].targetOut = TargetOut(handler, uuids + 1, calls[c].fileName),
                              ![c].outcome = UploadRaise("open")]
    /\ UNCHANGED store
    /\ UNCHANGED concurrentFrame

\* caller c opens its target for writing: the target exists, empty
ConcurrentOpenTarget(c) ==
    /\ calls[c].pc = "openTarget"
    /\ store' = [q \in DOMAIN store \cup {calls[c].targetOut} |->
                    IF q = calls[c].targetOut THEN EmptyContent ELSE store[q]]
    /\ calls' = [calls EXCEPT ![c].pc = "copy"]
    /\ UNCHANGED uuids
    /\ UNCHANGED concurrentFrame

\* caller c copies every byte of its source and returns target_out
ConcurrentCopy(c) ==
    /\ calls[c].pc = "copy"
    /\ store' = [store EXCEPT ![calls[c].targetOut] = store[calls[c].artPath]]
    /\ calls' = [calls EXCEPT ![c].pc = "done",
                              ![c].outcome = UploadReturn(Str(calls[c].targetOut))]
    /\ UNCHANGED uuids
    /\ UNCHANGED concurrentFrame

\* the copy of caller c raises part-way
ConcurrentCopyFails(c) ==
    /\ calls[c].pc = "copy"
    /\ store' = IF IsRemote(calls[c].targetOut)
                THEN [q \in DOMAIN store \ {calls[c].targetOut} |-> store[q]]
                ELSE store
    /\ calls' = [calls EXCEPT ![c].pc = "done", ![c].outcome = UploadRaise("copy")]
    /\ UNCHANGED uuids
    /\ UNCHANGED concurrentFrame

NextConcurrent ==
    \/ \E endpoint \in UploadEndpoints, project_id \in ProjectIds :
          HybridHandlerCall(endpoint, project_id)
    \/ \E c \in Callers, src \in ConcurrentSources : ConcurrentUploadCall(c, src)
    \/ \E c \in Callers : ConcurrentOpenSource(c)
    \/ \E c \in Callers : ConcurrentOpenSourceFails(c)
    \/ \E c \in Callers : ConcurrentOpenTarget(c)
    \/ \E c \in Callers : ConcurrentCopy(c)
    \/ \E c \in Callers : ConcurrentCopyFails(c)

SpecConcurrent == Init /\ [][NextConcurrent]_vars

----------------------------------------------------------------------------
(* configure_hybrid_session: the steps of a call *)

\* variables configure_hybrid_session leaves alone
sessionFrame == <<manifestVars, uploadVars, hybridVars, opVars, downloadVars, concurrentVars>>

\* the caller calls configure_hybrid_session(default_runner=..., artifact_endpoint=...):
\* the two keyword arguments are popped and validated
ConfigureHybridSessionCall(runnerArg, endpointArg) ==
    /\ cpc = "idle"
    /\ configures < MaxConfigures
    /\ configures' = configures + 1
    /\ default_runner' = runnerArg
    /\ artifact_endpoint' = endpointArg
    /\ sessionAtCall' = session
    /\ sessionLog' = <<>>
    /\ IF HybridSessionValidation(runnerArg, endpointArg) = "ValueError"
       THEN /\ cpc' = "done"
            /\ configureOutcome' = DownloadRaised("ValueError")
       ELSE /\ cpc' = "configure"
            /\ configureOutcome' = DownloadRunning
    /\ UNCHANGED session
    /\ UNCHANGED sessionFrame

\* configure_session(default_runner=default_runner, artifact_endpoint=artifact_endpoint)
\* returns: the main session has these settings
ConfigureSession ==
    /\ cpc = "configure"
    /\ sessionLog' = Append(sessionLog, "configure_session")
    /\ session' = ConfiguredSession(
                      RunnerModeParse(KwargsPop(default_runner, RunnerMode("hybrid"))),
                      KwargsPop(artifact_endpoint, <<"n", "o", "n", "e">>))
    /\ cpc' = "set"
    /\ UNCHANGED <<configures, default_runner, artifact_endpoint, sessionAtCall,
                   configureOutcome>>
    /\ UNCHANGED sessionFrame

\* configure_session raises (no credentials, validation failed)
ConfigureSessionFails ==
    /\ cpc = "configure"
    /\ sessionLog' = Append(sessionLog, "configure_session")
    /\ cpc' = "done"
    /\ configureOutcome' = DownloadRaised("configure_session")
    /\ UNCHANGED <<configures, default_runner, artifact_endpoint, session, sessionAtCall>>
    /\ UNCHANGED sessionFrame

\* set_session_config(hybrid_session_config(...)): the main session is
\* replaced by its hybrid-configured copy, and the call returns
SetSessionConfig ==
    /\ cpc = "set"
    /\ sessionLog' = Append(sessionLog, "set_session_config")
    /\ session' = HybridSessionConfig(session)
    /\ cpc' = "done"
    /\ configureOutcome' = DownloadReturned
    /\ UNCHANGED <<configures, default_runner, artifact_endpoint, sessionAtCall>>
    /\ UNCHANGED sessionFrame

\* the call has ended
ConfigureDone ==
    /\ cpc = "done"
    /\ cpc' = "idle"
    /\ UNCHANGED <<configures, default_runner, artifact_endpoint, session, sessionAtCall,
                   sessionLog, configureOutcome>>
    /\ UNCHANGED sessionFrame

NextSession ==
    \/ \E runnerArg \in DefaultRunnerArgs, endpointArg \in ArtifactEndpointArgs :
          ConfigureHybridSessionCall(runnerArg, endpointArg)
    \/ ConfigureSession
    \/ ConfigureSessionFails
    \/ SetSessionConfig
    \/ ConfigureDone

SpecSession == Init /\ [][NextSession]_vars

----------------------------------------------------------------------------
(* The one-step operations of the Hybrid and None handlers *)

\* variables an operation that only computes its result leaves alone
opFrame == <<manifestVars, concurrentVars, sessionVars, uploadVars, hybridVars, downloadVars>>

\* NoneArtifactsHandler.upload_project_artifact(src)
NoneUploadProjectArtifact(src) ==
    /\ handler.kind = "NoneArtifactsHandler"
    /\ op' = NoneRaise("upload_project_artifact", src)
    /\ UNCHANGED opFrame

\* handler.delete_project_artifact(key)
DeleteProjectArtifact(key) ==
    /\ handler.kind \in {"HybridArtifactsHandler", "NoneArtifactsHandler"}
    /\ op' = IF handler.kind = "HybridArtifactsHandler"
             THEN HybridDelete(key)
             ELSE NoneRaise("delete_project_artifact", key)
    /\ UNCHANGED opFrame

\* handler.list_project_artifacts()
ListProjectArtifacts ==
    /\ handler.kind \in {"HybridArtifactsHandler", "NoneArtifactsHandler"}
    /\ op' = IF handler.kind = "HybridArtifactsHandler"
             THEN HybridList
             ELSE NoneRaise("list_project_artifacts", <<>>)
    /\ UNCHANGED opFrame

\* handler.get_project_artifact_link(key)
GetProjectArtifactLink(key) ==
    /\ handler.kind \in {"HybridArtifactsHandler", "NoneArtifactsHandler"}
    /\ op' = IF handler.kind = "HybridArtifactsHandler"
             THEN OpReturn("get_project_artifact_link", key, HybridLink(handler, key))
             ELSE NoneRaise("get_project_artifact_link", key)
    /\ UNCHANGED opFrame

\* with handler.get_project_artifact_handle(key) as handle: on the Hybrid
\* handler the link is opened for reading and closed when the block ends
GetProjectArtifactHandle(key) ==
    /\ handler.kind \in {"HybridArtifactsHandler", "NoneArtifactsHandler"}
    /\ IF handler.kind = "HybridArtifactsHandler"
       THEN LET link == HybridLink(handler, key)
            IN  /\ IsRemote(link) \/ link \in DOMAIN store
                /\ streamsOpened < MaxHandles
                /\ streamsOpened' = streamsOpened + 1
                /\ op' = OpReturn("get_project_artifact_handle", key, link)
       ELSE /\ op' = NoneRaise("get_project_artifact_handle", key)
            /\ UNCHANGED streamsOpened
    /\ UNCHANGED <<upc, source, artPath, fileName, tempFiles, tempCreated, uploads, openStreams,
                   cloudOnlyVars, uploadOutcome>>
    /\ UNCHANGED <<manifestVars, concurrentVars, sessionVars, hybridVars, downloadVars>>

\* get_project_artifact_handle(key) on the Hybrid handler:
\* _get_transport_params(link) raises
GetProjectArtifactHandleParamsFail(key) ==
    /\ handler.kind = "HybridArtifactsHandler"
    /\ NeedsAzureClient(HybridLink(handler, key))
    /\ op' = OpRaise("get_project_artifact_handle", key, "ArtifactsException",
                     "Could not find Azure storage account credentials.")
    /\ UNCHANGED opFrame

\* get_project_artifact_handle(key) on the Hybrid handler: smart_open.open raises
GetProjectArtifactHandleOpenFails(key) ==
    /\ handler.kind = "HybridArtifactsHandler"
    /\ op' = OpRaise("get_project_artifact_handle", key, "OSError", "")
    /\ UNCHANGED opFrame

\* handler.get_project_artifact_manifest(key, retry_on_not_found, retry_on_pending)
GetProjectArtifactManifest(key, rnf, rp) ==
    /\ handler.kind \in {"HybridArtifactsHandler", "NoneArtifactsHandler"}
    /\ op' = IF handler.kind = "HybridArtifactsHandler"
             THEN HybridManifest(key, rnf, rp)
             ELSE NoneRaise("get_project_artifact_manifest", <<key, rnf, rp>>)
    /\ UNCHANGED opFrame

\* handler.get_model_artifact_link(model_id, type)
GetModelArtifactLink(model_id, type) ==
    /\ handler.kind \in {"HybridArtifactsHandler", "NoneArtifactsHandler"}
    /\ op' = IF handler.kind = "HybridArtifactsHandler"
             THEN HybridModelLink(handler, model_id, type)
             ELSE NoneRaise("get_model_artifact_link", <<model_id, type>>)
    /\ UNCHANGED opFrame

\* handler.get_record_handler_artifact_link(model_id, record_handler_id, type)
GetRecordHandlerArtifactLink(model_id, record_handler_id, type) ==
    /\ handler.kind \in {"HybridArtifactsHandler", "NoneArtifactsHandler"}
    /\ op' = IF handler.kind = "HybridArtifactsHandler"
             THEN HybridRecordHandlerLink(handler, model_id, record_handler_id, type)
             ELSE NoneRaise("get_record_handler_artifact_link",
                            <<model_id, record_handler_id, type>>)
    /\ UNCHANGED opFrame

\* NoneArtifactsHandler.download(link, out, type, log)
NoneDownload(link, out, type) ==
    /\ handler.kind = "NoneArtifactsHandler"
    /\ op' = NoneRaise("download", <<link, out, type>>)
    /\ UNCHANGED opFrame

\* the keys get_project_artifact_link is asked for: the keys tried and the
\* link it returned last
LinkArguments ==
    Keys \cup (IF op.name = "get_project_artifact_link" /\ op.kind = "return"
               THEN {op.value} ELSE {})

NextOps ==
    \/ \E endpoint \in Endpoints, project_id \in ProjectIds :
          HybridHandlerCall(endpoint, project_id)
    \/ \E src \in HybridSources : NoneUploadProjectArtifact(src)
    \/ \E key \in Keys : DeleteProjectArtifact(key)
    \/ ListProjectArtifacts
    \/ \E key \in LinkArguments : GetProjectArtifactLink(key)
    \/ \E key \in Keys : GetProjectArtifactHandle(key)
    \/ \E key \in Keys : GetProjectArtifactHandleParamsFail(key)
    \/ \E key \in Keys : GetProjectArtifactHandleOpenFails(key)
    \/ \E key \in Keys, rnf \in BOOLEAN, rp \in BOOLEAN :
          GetProjectArtifactManifest(key, rnf, rp)
    \/ \E model_id \in ModelIds, type \in ArtifactTypes : GetModelArtifactLink(model_id, type)
    \/ \E model_id \in ModelIds, record_handler_id \in RecordHandlerIds,
          type \in ArtifactTypes :
          GetRecordHandlerArtifactLink(model_id, record_handler_id, type)
    \/ \E link \in Keys, out \in {<<"o">>}, type \in ArtifactTypes :
          NoneDownload(link, out, type)

SpecOps == Init /\ [][NextOps]_vars

----------------------------------------------------------------------------
(* download on a Cloud or Hybrid handler: the steps of a call *)

\* the caller calls cloud_handler(project)
CloudHandlerCall(project_id) ==
    /\ handler = NoHandler
    /\ op = NoOp
    /\ handler' = CloudArtifactsHandler(project_id)
    /\ op' = OpReturn("cloud_handler", <<project_id>>, CloudArtifactsHandler(project_id))
    /\ UNCHANGED <<store, uuids, targetOut, returnedKeys, storedAtCall>>
    /\ UNCHANGED <<manifestVars, concurrentVars, sessionVars, uploadVars, downloadVars>>

\* the caller calls handler.download(link, out, type, log); the Cloud handler
\* enters _download at once, the Hybrid handler first evaluates
\* _get_transport_params(self.endpoint)
DownloadCall(link, out, type) ==
    /\ handler.kind \in {"CloudArtifactsHandler", "HybridArtifactsHandler"}
    /\ dpc = "idle"
    /\ downloads < MaxDownloads
    /\ downloads' = downloads + 1
    /\ download_link' = link
    /\ output_path' = out
    /\ artifact_type' = type
    /\ logged' = <<>>
    /\ existedAtCall' = DOMAIN store
    /\ downloadOutcome' = DownloadRunning
    /\ IF handler.kind = "CloudArtifactsHandler"
       THEN /\ target_out' = DownloadTargetOut(link, out)
            /\ dpc' = "open"
       ELSE /\ target_out' = <<>>
            /\ dpc' = "params"
    /\ UNCHANGED <<manifestVars, concurrentVars, sessionVars, uploadVars, hybridVars, opVars>>

\* _get_transport_params(self.endpoint) returns and _download is entered
DownloadTransportParams ==
    /\ dpc = "params"
    /\ target_out' = DownloadTargetOut(download_link, output_path)
    /\ dpc' = "open"
    /\ UNCHANGED <<downloads, download_link, output_path, artifact_type, logged, existedAtCall,
                   downloadOutcome>>
    /\ UNCHANGED <<manifestVars, concurrentVars, sessionVars, uploadVars, hybridVars, opVars>>

\* _get_transport_params(self.endpoint) raises: no Azure credentials, or a
\* SAS URL of another container; _download is never entered
DownloadTransportParamsFail ==
    /\ dpc = "params"
    /\ NeedsAzureClient(handler.endpoint)
    /\ dpc' = "done"
    /\ downloadOutcome' = DownloadRaised("ArtifactsException")
    /\ UNCHANGED <<downloads, download_link, output_path, artifact_type, target_out, logged,
                   existedAtCall>>
    /\ UNCHANGED <<manifestVars, concurrentVars, sessionVars, uploadVars, hybridVars, opVars>>

\* smart_open.open(download_link, "rb") succeeds
DownloadOpenLink ==
    /\ dpc = "open"
    /\ IsRemote(download_link) \/ download_link \in DOMAIN store
    /\ openStreams' = openStreams + 1
    /\ streamsOpened' = streamsOpened + 1
    /\ dpc' = "openTarget"
    /\ UNCHANGED <<upc, source, artPath, fileName, tempFiles, tempCreated, uploads,
                   cloudOnlyVars, uploadOutcome>>
    /\ UNCHANGED <<downloads, download_link, output_path, artifact_type, target_out, logged,
                   existedAtCall, downloadOutcome>>
    /\ UNCHANGED <<manifestVars, concurrentVars, sessionVars, hybridVars, opVars>>

\* smart_open.open(download_link, "rb") raises: the except clause logs and
\* the call returns
DownloadOpenLinkFails ==
    /\ dpc = "open"
    /\ logged' = LogError(logged, artifact_type)
    /\ dpc' = "done"
    /\ downloadOutcome' = DownloadReturned
    /\ UNCHANGED <<downloads, download_link, output_path, artifact_type, target_out,
                   existedAtCall>>
    /\ UNCHANGED <<manifestVars, concurrentVars, sessionVars, uploadVars, hybridVars, opVars>>

\* smart_open.open(target_out, "wb") succeeds: the target exists, empty
DownloadOpenTarget ==
    /\ dpc = "openTarget"
    /\ store' = [q \in DOMAIN store \cup {target_out} |->
                    IF q = target_out THEN EmptyContent ELSE store[q]]
    /\ openStreams' = openStreams + 1
    /\ streamsOpened' = streamsOpened + 1
    /\ dpc' = "copy"
    /\ UNCHANGED <<upc, source, artPath, fileName, tempFiles, tempCreated, uploads,
                   cloudOnlyVars, uploadOutcome>>
    /\ UNCHANGED <<handler, uuids, targetOut, returnedKeys, storedAtCall>>
    /\ UNCHANGED <<downloads, download_link, output_path, artifact_type, target_out, logged,
                   existedAtCall, downloadOutcome>>
    /\ UNCHANGED <<manifestVars, concurrentVars, sessionVars, opVars>>

\* smart_open.open(target_out, "wb") raises: src is closed, the except
\* clause logs and the call returns
DownloadOpenTargetFails ==
    /\ dpc = "openTarget"
    /\ openStreams' = openStreams - 1
    /\ logged' = LogError(logged, artifact_type)
    /\ dpc' = "done"
    /\ downloadOutcome' = DownloadReturned
    /\ UNCHANGED <<upc, source, artPath, fileName, tempFiles, tempCreated, uploads,
                   streamsOpened, cloudOnlyVars, uploadOutcome>>
    /\ UNCHANGED <<downloads, download_link, output_path, artifact_type, target_out,
                   existedAtCall>>
    /\ UNCHANGED <<manifestVars, concurrentVars, sessionVars, hybridVars, opVars>>

\* shutil.copyfileobj copies every byte; both streams are closed and the
\* call returns
DownloadCopy ==
    /\ dpc = "copy"
    /\ store' = [store EXCEPT ![target_out] = LinkContent(download_link, store)]
    /\ openStreams' = openStreams - 2
    /\ dpc' = "done"
    /\ downloadOutcome' = DownloadReturned
    /\ UNCHANGED <<upc, source, artPath, fileName, tempFiles, tempCreated, uploads,
                   streamsOpened, cloudOnlyVars, uploadOutcome>>
    /\ UNCHANGED <<handler, uuids, targetOut, returnedKeys, storedAtCall>>
    /\ UNCHANGED <<downloads, download_link, output_path, artifact_type, target_out, logged,
                   existedAtCall>>
    /\ UNCHANGED <<manifestVars, concurrentVars, sessionVars, opVars>>

\* shutil.copyfileobj raises part-way: both streams are closed, the target
\* keeps what was written, the except clause logs and the call returns
DownloadCopyFails ==
    /\ dpc = "copy"
    /\ openStreams' = openStreams - 2
    /\ logged' = LogError(logged, artifact_type)
    /\ dpc' = "done"
    /\ downloadOutcome' = DownloadReturned
    /\ UNCHANGED <<upc, source, artPath, fileName, tempFiles, tempCreated, uploads,
                   streamsOpened, cloudOnlyVars, uploadOutcome>>
    /\ UNCHANGED <<downloads, download_link, output_path, artifact_type, target_out,
                   existedAtCall>>
    /\ UNCHANGED <<manifestVars, concurrentVars, sessionVars, hybridVars, opVars>>

\* the call has ended; the handler is ready for the caller's next call
DownloadDone ==
    /\ dpc = "done"
    /\ dpc' = "idle"
    /\ UNCHANGED <<downloads, download_link, output_path, artifact_type, target_out, logged,
                   existedAtCall, downloadOutcome>>
    /\ UNCHANGED <<manifestVars, concurrentVars, sessionVars, uploadVars, hybridVars, opVars>>

NextDownload ==
    \/ \E project_id \in ProjectIds : CloudHandlerCall(project_id)
    \/ \E endpoint \in UploadEndpoints, project_id \in ProjectIds :
          HybridHandlerCall(endpoint, project_id)
    \/ \E link \in DownloadLinks, out \in OutputPaths, type \in DownloadTypes :
          DownloadCall(link, out, type)
    \/ DownloadTransportParams
    \/ DownloadTransportParamsFail
    \/ DownloadOpenLink
    \/ DownloadOpenLinkFails
    \/ DownloadOpenTarget
    \/ DownloadOpenTargetFails
    \/ DownloadCopy
    \/ DownloadCopyFails
    \/ DownloadDone

SpecDownload == Init /\ [][NextDownload]_vars

----------------------------------------------------------------------------
(* Claims about get_project_artifact_manifest, checked under Spec *)

BothRetries == retry_on_not_found /\ retry_on_pending

\* the wait the two stacked loops can add up to: every attempt of the outer
\* (pending) loop runs a fresh inner (not-found) loop
NestedWaitCeiling ==
    PendingMaxAttempts * (NotFoundMaxAttempts - 1) * NotFoundWait
        + (PendingMaxAttempts - 1) * PendingWait

\* the NotFound answers one call can consume: four before each of the first
\* fourteen pending answers, then five that exhaust the inner loop
NestedNotFoundCeiling ==
    (PendingMaxAttempts - 1) * (NotFoundMaxAttempts - 1) + NotFoundMaxAttempts

\* C1: with both retries enabled, a call that was answered at most 4 times
\* NotFound and at most 14 times pending, and by no error, has ended only if
\* its last answer was a final manifest; it then returned that manifest after
\* exactly n + m + 1 fetches and raised nothing.
C1_FinalAfterNotFoundThenPending ==
    ( /\ pc = "done"
      /\ BothRetries
      /\ nfAnswers <= NotFoundMaxAttempts - 1
      /\ pendingAnswers <= PendingMaxAttempts - 1
      /\ lastAnswer.kind # "ApiException" )
    => /\ IsFinal(lastAnswer)
       /\ outcome = Return(lastAnswer.resp)
       /\ fetches = nfAnswers + pendingAnswers + 1

\* the spec's case: 404, 404, pending, pending, final -> final after 5 fetches
C1_Witness ==
    /\ pc = "done"
    /\ BothRetries
    /\ nfAnswers = 2
    /\ pendingAnswers = 2
    /\ ~nfAfterPending
    /\ IsFinal(lastAnswer)
    /\ fetches = 5
    /\ outcome = Return(lastAnswer.resp)

\* C2: with both retries enabled, a call all of whose fetches were answered
\* NotFound ends after exactly 5 fetches, returning None and raising nothing.
C2_NoneAfterFiveNotFound ==
    (pc = "done" /\ BothRetries /\ nfAnswers = fetches)
    => (fetches = NotFoundMaxAttempts /\ outcome = Return(None))

C2_Witness ==
    /\ pc = "done"
    /\ BothRetries
    /\ lastAnswer = Answer404
    /\ nfAnswers = fetches
    /\ fetches = 5
    /\ outcome = Return(None)

\* C3: with retry_on_pending, a call all of whose fetches were answered by a
\* pending manifest ends after exactly 15 fetches and returns the manifest of
\* the last fetch.
C3_LastPendingAfterFifteen ==
    (pc = "done" /\ retry_on_pending /\ pendingAnswers = fetches)
    => /\ fetches = PendingMaxAttempts
       /\ IsPending(lastAnswer)
       /\ outcome = Return(lastAnswer.resp)

C3_Witness ==
    /\ pc = "done"
    /\ retry_on_pending
    /\ pendingAnswers = 15
    /\ fetches = 15
    /\ outcome = Return(lastAnswer.resp)
    /\ outcome.manifest.status = "pending"

C5_NoRetryOn404WhenDisabled ==
    (~retry_on_not_found /\ fetches = 1 /\ lastAnswer = Answer404)
    => (pc = "done" /\ waited = 0 /\ outcome = Return(None))

\* C6: with retry_on_pending = FALSE, the first pending answer ends the call,
\* which returns that manifest; no 2-unit wait ever happens (the only waits
\* are the 3-unit ones after NotFound answers).
C6_PendingReturnedWhenDisabled ==
    (~retry_on_pending /\ pendingAnswers >= 1)
    => /\ pc = "done"
       /\ pendingAnswers = 1
       /\ IsPending(lastAnswer)
       /\ outcome = Return(lastAnswer.resp)
       /\ pendingAttempt = 1
       /\ waited = NotFoundWait * nfAnswers

C6_Witness ==
    /\ ~retry_on_pending
    /\ pc = "done"
    /\ IsPending(lastAnswer)
    /\ fetches = 1
    /\ waited = 0
    /\ outcome = Return(lastAnswer.resp)

\* C7: a fetch that fails with a remote-service error other than NotFound ends
\* the call with that error raised, and no fetch and no wait follow it.
C7_OtherErrorPropagates ==
    /\ [](lastAnswer.kind = "ApiException"
            => (pc = "done" /\ outcome = Raise("ApiException", None, lastAnswer.code)))
    /\ [][lastAnswer.kind = "ApiException" => (fetches' = fetches /\ waited' = waited)]_vars

\* an error on a late attempt of both loops
C7_Witness ==
    /\ pc = "done"
    /\ lastAnswer.kind = "ApiException"
    /\ outcome = Raise("ApiException", None, lastAnswer.code)
    /\ notFoundAttempt > 1
    /\ pendingAttempt > 1

\* C8: the call never raises ManifestNotFoundException or
\* ManifestPendingException; a call that ended on a NotFound or pending answer
\* returned None or a pending manifest.
C8_ControlFlowExceptionsStayInside ==
    /\ outcome.kind = "raise"
         => outcome.exc \notin {"ManifestNotFoundException", "ManifestPendingException"}
    /\ (pc = "done" /\ (IsNotFound(lastAnswer) \/ IsPending(lastAnswer)))
         => (outcome.kind = "return" /\ outcome.manifest \in {None} \cup PendingManifests)

\* both exhaustion fallbacks are witnessed by the not-found one on the last
\* pending attempt
C8_Witness ==
    /\ pc = "done"
    /\ IsNotFound(lastAnswer)
    /\ notFoundAttempt = NotFoundMaxAttempts
    /\ pendingAttempt = PendingMaxAttempts
    /\ outcome = Return(None)

----------------------------------------------------------------------------
(* Claims about CloudArtifactsHandler.upload_project_artifact, checked under SpecUpload *)

\* the side effects an upload can have
uploadEffects == <<createCalls, putCalls, slots, streamsOpened, openStreams, tempCreated, tempFiles>>

\* C10: a call of upload_project_artifact whose source is a string starting
\* with gretel_ ends at once, returns the source unchanged, and sends no
\* create-artifact request and no PUT, opens no stream and creates no temp file.
C10_PrefixedKeySkipsUpload ==
    [][(upc = "idle" /\ source'.kind = "str" /\ StartsWith(source'.text, GretelPrefix))
         => /\ upc' = "done"
            /\ uploadOutcome' = UploadReturn(source')
            /\ UNCHANGED uploadEffects]_vars

\* the key a first upload returned is passed to a second call, which returns it
C10_Witness ==
    /\ upc = "done"
    /\ uploads = 2
    /\ source.kind = "str"
    /\ StartsWith(source.text, GretelPrefix)
    /\ source.text \in slots
    /\ uploadOutcome = UploadReturn(source)
    /\ createCalls = 1
    /\ putCalls = 1

----------------------------------------------------------------------------
(* Claims about HybridArtifactsHandler.upload_project_artifact, checked under SpecHybrid *)

\* C11: a call of upload_project_artifact on the Hybrid handler whose source is
\* a str or a Path that does not exist as a local file ends at once and
\* returns the source unchanged; it opens no stream, draws no uuid, creates no
\* temp file and leaves every file and object as it was.
C11_NonLocalSourcePassesThrough ==
    [][( /\ handler.kind = "HybridArtifactsHandler"
         /\ upc = "idle"
         /\ upc' # "idle"
         /\ source'.kind \in {"str", "Path"}
         /\ ~LocalExists(source'.text, store) )
         => /\ upc' = "done"
            /\ uploadOutcome' = UploadReturn(source')
            /\ UNCHANGED <<store, streamsOpened, openStreams, uuids, tempFiles, tempCreated>>]_vars

\* the nonsense remote value s3://n/a.c handed to a handler on a local endpoint
C11_Witness ==
    /\ handler = HybridArtifactsHandler(LocalEndpoint, <<"p">>)
    /\ upc = "done"
    /\ source = Str(<<"s", "3", ":", "/", "/", "n", "/", "a", ".", "c">>)
    /\ uploadOutcome = UploadReturn(source)
    /\ DOMAIN store = storedAtCall
    /\ streamsOpened = 0

\* the bare name gretel_<hex>_<file-name> of the upload that just ended
BareKey == GretelPrefix \o <<Hex(uuids)>> \o <<"_">> \o fileName

\* what the source of the upload that just ended holds
SourceContent == IF source.kind = "DataFrame" THEN CsvContent ELSE store[source.text]

\* C12: an upload on the Hybrid handler that copied its source returns
\* <endpoint>/sources/<project-id>/gretel_<hex>_<file-name>; that path is the
\* one path the store has gained since the call began, it holds the source's
\* content, and get_project_artifact_link resolves both the returned key and
\* the bare gretel_<hex>_<file-name> to it.
C12_HybridUploadRoundTrip ==
    ( /\ handler.kind = "HybridArtifactsHandler"
      /\ upc = "done"
      /\ uploadOutcome.kind = "return"
      /\ targetOut # <<>> )
    => LET key == uploadOutcome.value.text
       IN  /\ uploadOutcome.value.kind = "str"
           /\ key = handler.endpoint \o <<"/", "sources", "/">> \o handler.project_id
                        \o <<"/">> \o BareKey
           /\ DOMAIN store \ storedAtCall = {key}
           /\ storedAtCall \subseteq DOMAIN store
           /\ store[key] = SourceContent
           /\ HybridLink(handler, key) = key
           /\ HybridLink(handler, BareKey) = key

\* the local file d/a.c uploaded to s3://b for project p
C12_Witness ==
    /\ handler = HybridArtifactsHandler(S3Endpoint, <<"p">>)
    /\ upc = "done"
    /\ source = Str(<<"d", "/", "a", ".", "c">>)
    /\ uploadOutcome = UploadReturn(Str(S3Endpoint \o <<"/", "sources", "/", "p", "/">>
                                        \o GretelPrefix \o <<"1", "_", "a", ".", "c">>))
    /\ store[uploadOutcome.value.text] = 1

\* C13: a call of upload_project_artifact that is handed a key an earlier
\* upload returned ends at once, returns that key and stores nothing new.
C13_ReuploadOfReturnedKeyStoresNothing ==
    (upc # "idle" /\ source.kind = "str" /\ source.text \in returnedKeys \cup slots)
    => /\ upc = "done"
       /\ uploadOutcome = UploadReturn(source)
       /\ handler.kind = "HybridArtifactsHandler" => DOMAIN store = storedAtCall

----------------------------------------------------------------------------
(* Claims about the one-step operations, checked under SpecOps *)

\* the handler is a Hybrid handler and the latest operation is this one
HybridOp(name) == handler.kind = "HybridArtifactsHandler" /\ op.name = name

\* e/sources/p of the handler
DataSourcesRoot == handler.endpoint \o <<"/", "sources", "/">> \o handler.project_id

OpArtifactType == op.arg[Len(op.arg)]

\* C15: on the Hybrid handler, for a type of the filename table
\* get_model_artifact_link returns <endpoint>/<project-id>/model/<model-id>/<filename>
\* and get_record_handler_artifact_link returns
\* <endpoint>/<project-id>/run/<record-handler-id>/<filename>, with the
\* filename of that type; for any other type both raise ArtifactsException
\* and return no link.
C15_JobArtifactLinks ==
    /\ HybridOp("get_model_artifact_link")
       => IF OpArtifactType \in DOMAIN ARTIFACT_FILENAMES
          THEN /\ op.kind = "return"
               /\ op.value = handler.endpoint \o <<"/">> \o handler.project_id
                                 \o <<"/", "model", "/">> \o op.arg[1]
                                 \o <<"/", ARTIFACT_FILENAMES[OpArtifactType]>>
          ELSE /\ op.kind = "raise"
               /\ op.exc = "ArtifactsException"
               /\ op.value = <<>>
    /\ HybridOp("get_record_handler_artifact_link")
       => IF OpArtifactType \in DOMAIN ARTIFACT_FILENAMES
          THEN /\ op.kind = "return"
               /\ op.value = handler.endpoint \o <<"/">> \o handler.project_id
                                 \o <<"/", "run", "/">> \o op.arg[2]
                                 \o <<"/", ARTIFACT_FILENAMES[OpArtifactType]>>
          ELSE /\ op.kind = "raise"
               /\ op.exc = "ArtifactsException"
               /\ op.value = <<>>

\* a record handler link was asked for with a type that is no key of the table
C15_Witness ==
    /\ HybridOp("get_record_handler_artifact_link")
    /\ op.arg = << <<"m">>, <<"r">>, "nonsense" >>
    /\ op.kind = "raise"
    /\ op.exc = "ArtifactsException"

\* C16: hybrid_handler raises ArtifactsException and yields no handler for
\* the default endpoint, yields a NoneArtifactsHandler for "none", and for
\* any other endpoint a HybridArtifactsHandler bound to that endpoint and the
\* project id; so no Hybrid handler has the default endpoint or "none".
C16_HybridHandlerFactory ==
    /\ op.name = "hybrid_handler"
       => /\ op.kind \in {"return", "raise"}
          /\ handler = op.value
          /\ IF op.arg[1] = DefaultArtifactEndpoint
             THEN /\ op.kind = "raise"
                  /\ op.exc = "ArtifactsException"
                  /\ handler = NoHandler
             ELSE IF op.arg[1] = <<"n", "o", "n", "e">>
             THEN /\ op.kind = "return"
                  /\ handler.kind = "NoneArtifactsHandler"
             ELSE /\ op.kind = "return"
                  /\ handler.kind = "HybridArtifactsHandler"
                  /\ handler.endpoint = op.arg[1]
                  /\ handler.project_id = op.arg[2]
    /\ handler.kind = "HybridArtifactsHandler"
       => handler.endpoint \notin {DefaultArtifactEndpoint, <<"n", "o", "n", "e">>}

\* the factory was called for a project with the default endpoint
C16_Witness ==
    /\ op.name = "hybrid_handler"
    /\ op.arg[1] = DefaultArtifactEndpoint
    /\ op.kind = "raise"
    /\ handler = NoHandler

\* the nine operations of a handler
NineOperations ==
    { "upload_project_artifact", "delete_project_artifact", "list_project_artifacts",
      "get_project_artifact_link", "get_project_artifact_handle",
      "get_project_artifact_manifest", "get_model_artifact_link",
      "get_record_handler_artifact_link", "download" }

\* nothing was requested, read, written, retried or waited for
NothingTouched ==
    /\ fetches = 0 /\ waited = 0 /\ pc = "idle"
    /\ createCalls = 0 /\ putCalls = 0 /\ slots = {}
    /\ streamsOpened = 0 /\ openStreams = 0 /\ tempCreated = 0 /\ uuids = 0
    /\ store = InitialStore
    /\ upc = "idle" /\ dpc = "idle" /\ downloads = 0 /\ logged = <<>>

\* C17: each of the nine operations of the NoneArtifactsHandler raises
\* NotImplementedError("no artifact endpoint is configured") for every
\* argument, and nothing is requested, read, written, retried or waited for.
C17_NoneHandlerAlwaysRaises ==
    handler.kind = "NoneArtifactsHandler"
    => /\ NothingTouched
       /\ op.name \in NineOperations
          => /\ op.kind = "raise"
             /\ op.exc = "NotImplementedError"
             /\ op.msg = "no artifact endpoint is configured"
             /\ op.value = <<>>

\* download was called on the None handler
C17_Witness ==
    /\ handler.kind = "NoneArtifactsHandler"
    /\ op.name = "download"
    /\ op.kind = "raise"
    /\ op.exc = "NotImplementedError"

\* delete, list and get-manifest
UnsupportedOperations ==
    { "delete_project_artifact", "list_project_artifacts", "get_project_artifact_manifest" }

\* C18 as stated: delete, list and get-manifest on a Hybrid or None handler
\* raise ArtifactsException, at once and without fetch or wait.
C18_UnsupportedRaiseArtifactsException ==
    (handler.kind \in {"HybridArtifactsHandler", "NoneArtifactsHandler"}
        /\ op.name \in UnsupportedOperations)
    => /\ op.kind = "raise"
       /\ op.exc = "ArtifactsException"
       /\ fetches = 0
       /\ waited = 0

\* C18, amended: delete, list and get-manifest raise at once, without fetch
\* or wait, for every key and retry flag: ArtifactsException on a Hybrid
\* handler, NotImplementedError on a None handler.
C18_UnsupportedRaiseByHandler ==
    (handler.kind \in {"HybridArtifactsHandler", "NoneArtifactsHandler"}
        /\ op.name \in UnsupportedOperations)
    => /\ op.kind = "raise"
       /\ op.exc = IF handler.kind = "HybridArtifactsHandler"
                   THEN "ArtifactsException"
                   ELSE "NotImplementedError"
       /\ fetches = 0
       /\ waited = 0
       /\ pc = "idle"

\* get-manifest was called on a Hybrid handler with both retry flags set
C18_Witness ==
    /\ HybridOp("get_project_artifact_manifest")
    /\ op.arg[2] /\ op.arg[3]
    /\ op.kind = "raise"
    /\ op.exc = "ArtifactsException"

----------------------------------------------------------------------------
(* Claims about download, checked under SpecDownload *)

\* the download call has ended
DownloadEnded == dpc = "done"

\* C19 as stated: download on a Cloud or Hybrid handler never raises; after
\* any failure it has logged an error naming the artifact type and returns.
C19_DownloadNeverRaises ==
    DownloadEnded
    => /\ downloadOutcome = DownloadReturned
       /\ logged \in {<<>>, <<artifact_type>>}
       /\ logged = <<>>
          => /\ target_out \in DOMAIN store
             /\ store[target_out] = LinkContent(download_link, store)

\* C19, amended: once the transport parameters are resolved, download never
\* raises: a failure to open the link, to open the target or to copy is
\* logged once, naming the artifact type, and the call returns; a call that
\* logs nothing has copied the link to the target. A Hybrid handler on an
\* azure endpoint whose transport parameters cannot be resolved raises
\* ArtifactsException before anything is opened, logged or written.
C19_DownloadRaisesOnlyForTransportParams ==
    DownloadEnded
    => \/ /\ downloadOutcome = DownloadReturned
          /\ logged \in {<<>>, <<artifact_type>>}
          /\ logged = <<>>
             => /\ target_out \in DOMAIN store
                /\ store[target_out] = LinkContent(download_link, store)
       \/ /\ downloadOutcome = DownloadRaised("ArtifactsException")
          /\ handler.kind = "HybridArtifactsHandler"
          /\ StartsWith(handler.endpoint, <<"a", "z", "u", "r", "e">>)
          /\ logged = <<>>
          /\ target_out = <<>>
          /\ DOMAIN store = existedAtCall

\* a download on the Cloud handler whose copy failed
C19_Witness ==
    /\ DownloadEnded
    /\ handler.kind = "CloudArtifactsHandler"
    /\ downloadOutcome = DownloadReturned
    /\ logged = <<artifact_type>>
    /\ target_out \in DOMAIN store
    /\ target_out \notin existedAtCall

\* C20: after a download that logged a failure, no file exists at
\* <output_dir>/<final path segment of the link> that was not there before
\* the call.
C20_FailedDownloadLeavesNoNewFile ==
    (DownloadEnded /\ logged # <<>>)
    => (target_out \in DOMAIN store => target_out \in existedAtCall)

----------------------------------------------------------------------------
(* Claims about the uploads, checked under SpecUpload and SpecHybrid *)

\* C21: once an upload of a dataset has ended, on whatever path, the
\* temporary file the call created to hold the dataset is gone.
C21_TempFileDeletedOnEveryExit ==
    (upc = "done" /\ source.kind = "DataFrame")
    => TempName(tempCreated) \notin tempFiles

\* C22: a Cloud upload of a source that requires upload requests the slot
\* before the PUT, returns the slot's key only after the PUT was answered
\* with a success status, and raises without a key when the PUT failed.
C22_KeyOnlyAfterSuccessfulPut ==
    /\ upc = "put" => (slotKey \in slots /\ putAnswer = "none")
    /\ putCalls <= Cardinality(slots)
    /\ (upc = "done" /\ ~CloudDoesNotRequireUpload(source))
       => /\ uploadOutcome.kind = "return"
             => /\ putAnswer = "success status"
                /\ slotKey \in slots
                /\ uploadOutcome.value = Str(slotKey)
          /\ putAnswer = "success status" => uploadOutcome.kind = "return"
          /\ putAnswer \in {"transport error", "failure status"}
             => /\ uploadOutcome.kind = "raise"
                /\ uploadOutcome.value = NoSource

\* the PUT of an upload was answered with a failure status
C22_Witness ==
    /\ upc = "done"
    /\ source = DataFrame
    /\ putAnswer = "failure status"
    /\ uploadOutcome = UploadRaise("HTTPError")
    /\ slotKey \in slots

\* C27: when a Cloud upload ends by raising, no slot that the call created
\* is registered on the remote service.
C27_NoOrphanSlot ==
    (upc = "done" /\ uploadOutcome.kind = "raise") => slotKey \notin slots

----------------------------------------------------------------------------
(* Further claims about get_project_artifact_manifest, checked under Spec *)

\* the wait that follows the latest answer when the call goes on
WaitAfterLastAnswer ==
    IF IsNotFound(lastAnswer) THEN 3 ELSE IF IsPending(lastAnswer) THEN 2 ELSE 0

\* C23: every re-fetch after a NotFound answer is preceded by a wait of
\* exactly 3 time-units, every re-fetch after a pending answer by a wait of
\* exactly 2, and nothing is waited after the attempt that ends the call.
C23_BackoffIntervals ==
    /\ pc = "fetch"
       => /\ fetches = nfAnswers + pendingAnswers
          /\ waited = 3 * nfAnswers + 2 * pendingAnswers
    /\ pc = "sleepNotFound"
       => /\ IsNotFound(lastAnswer)
          /\ waited = 3 * nfAnswers + 2 * pendingAnswers - 3
    /\ pc = "sleepPending"
       => /\ IsPending(lastAnswer)
          /\ waited = 3 * nfAnswers + 2 * pendingAnswers - 2
    /\ pc = "done"
       => waited = 3 * nfAnswers + 2 * pendingAnswers - WaitAfterLastAnswer

\* two NotFound answers and a pending one, then the final manifest
C23_Witness ==
    /\ pc = "done"
    /\ nfAnswers = 2
    /\ pendingAnswers = 1
    /\ IsFinal(lastAnswer)
    /\ waited = 8

\* C24: whatever the fetches are answered, a call makes at most 15 * 5
\* fetches and then returns or raises.
C24_ManifestCallTerminates ==
    /\ [](fetches <= 75)
    /\ (pc = "fetch") ~> (pc = "done" /\ outcome.kind \in {"return", "raise"})

\* a call that polled as long as a call can
C24_Witness ==
    /\ pc = "done"
    /\ fetches = 75
    /\ outcome.kind = "return"

----------------------------------------------------------------------------
(* Further claims about the Hybrid upload *)

\* the local source of the upload existed when the call checked it and is gone
SourceDeletedSinceCheck ==
    /\ handler.kind = "HybridArtifactsHandler"
    /\ upc # "idle"
    /\ source.kind \in {"str", "Path"}
    /\ source.text \in storedAtCall
    /\ source.text \notin DOMAIN store

\* C25: a Hybrid upload whose local source is deleted between the existence
\* check and the open raises, returns no key and creates no object.
C25_DeletedSourceRaisesAndStoresNothing ==
    SourceDeletedSinceCheck
    => /\ upc \in {"materialize", "open", "done"}
       /\ DOMAIN store \subseteq storedAtCall
       /\ upc = "done"
          => /\ uploadOutcome.kind = "raise"
             /\ uploadOutcome.value = NoSource

\* the upload of "b" ended after "b" was deleted under it
C25_Witness ==
    /\ SourceDeletedSinceCheck
    /\ upc = "done"
    /\ source = Str(<<"b">>)
    /\ uploadOutcome = UploadRaise("open")
    /\ targetOut # <<>>

\* the upload of caller c stored its source and returned the key
Stored(c) ==
    /\ calls[c].pc = "done"
    /\ calls[c].outcome.kind = "return"
    /\ calls[c].targetOut # <<>>

\* C26: however two uploads on one handler interleave, the keys of two
\* uploads that stored their sources are distinct, and the object of each
\* key holds the complete content of its own source, whatever the other
\* call has done since.
C26_ConcurrentUploadsDoNotInterfere ==
    \A c \in Callers :
        Stored(c)
        => /\ calls[c].outcome.value = Str(calls[c].targetOut)
           /\ calls[c].targetOut \in DOMAIN store
           /\ store[calls[c].targetOut] = InitialStore[calls[c].source.text]
           /\ \A d \in Callers \ {c} :
                 calls[d].targetOut # <<>> => calls[d].targetOut # calls[c].targetOut

\* both callers uploaded the same local file and both uploads returned
C26_Witness ==
    /\ Stored("t1")
    /\ Stored("t2")
    /\ calls["t1"].source = Str(<<"d", "/", "a", ".", "c">>)
    /\ calls["t2"].source = PathObj(<<"d", "/", "a", ".", "c">>)
    /\ calls["t1"].targetOut # calls["t2"].targetOut

----------------------------------------------------------------------------
(* Further claims about the one-step operations, checked under SpecOps *)

\* C28: the link get_project_artifact_link returns lies inside the directory
\* <endpoint>/sources/<project-id>/ of the handler's own project: it begins
\* with the data sources root followed by a path separator.
C28_LinkStaysInOwnProject ==
    (HybridOp("get_project_artifact_link") /\ op.kind = "return")
    => StartsWith(op.value, DataSourcesRoot \o <<"/">>)

----------------------------------------------------------------------------
(* Claims about configure_hybrid_session, checked under SpecSession *)

\* a default_runner other than hybrid was passed
RunnerNotHybrid == default_runner.given /\ default_runner.value.name # "hybrid"

\* artifact_endpoint="cloud" was passed
EndpointIsCloud ==
    artifact_endpoint.given /\ artifact_endpoint.value = <<"c", "l", "o", "u", "d">>

\* the artifact endpoint the call configures
EndpointConfigured ==
    IF artifact_endpoint.given THEN artifact_endpoint.value ELSE <<"n", "o", "n", "e">>

\* C29: a default_runner other than hybrid, or the artifact endpoint
\* "cloud", raises ValueError before configure_session or set_session_config
\* is called, the session unchanged; an omitted artifact_endpoint is
\* configured as "none"; and the main session is replaced by the hybrid
\* session only after configure_session has run.
C29_ValidatesBeforeChanging ==
    cpc # "idle"
    => /\ (RunnerNotHybrid \/ EndpointIsCloud)
          => /\ cpc = "done"
             /\ configureOutcome = DownloadRaised("ValueError")
             /\ sessionLog = <<>>
             /\ session = sessionAtCall
       /\ configureOutcome = DownloadRaised("ValueError")
          => (sessionLog = <<>> /\ session = sessionAtCall)
       /\ cpc = "configure" => (sessionLog = <<>> /\ session = sessionAtCall)
       /\ cpc = "set"
          => /\ sessionLog = <<"configure_session">>
             /\ session.class = "ClientConfig"
             /\ session.artifact_endpoint = EndpointConfigured
       /\ (cpc = "done" /\ configureOutcome = DownloadReturned)
          => /\ sessionLog = <<"configure_session", "set_session_config">>
             /\ session.class = "_HybridSessionConfig"
             /\ session.default_runner = RunnerMode("hybrid")
             /\ session.artifact_endpoint = EndpointConfigured

\* a hybrid session was configured without an artifact endpoint, and a
\* second call that passed "cloud" was refused
C29_Witness ==
    /\ cpc = "done"
    /\ EndpointIsCloud
    /\ configureOutcome = DownloadRaised("ValueError")
    /\ session.class = "_HybridSessionConfig"
    /\ session.artifact_endpoint = <<"n", "o", "n", "e">>
    /\ sessionLog = <<>>

====
